---- MODULE Spec2Model ----
(***************************************************************************)
(* The shared LRU object cache of the proxy (src/proxy.c, the variant that *)
(* protects a doubly-linked list with one pthread_rwlock_t), driven by     *)
(* handler threads that call cache_store and cache_lookup_and_write.       *)
(*                                                                         *)
(* The list is modelled as the code keeps it: heap blocks with uri, buf,   *)
(* size, prev and next fields, cache_head, cache_tail and cache_used.      *)
(* Every statement group between two lock operations, and every iteration  *)
(* of a list traversal, is one step of the calling thread.                 *)
(*                                                                         *)
(* Sizes are scaled: the source has MAX_CACHE_SIZE 1049000 and             *)
(* MAX_OBJECT_SIZE 102400 (proxy.c:149-150); the model keeps their names   *)
(* and their order (MAX_OBJECT_SIZE < MAX_CACHE_SIZE) with small values,   *)
(* so that a handful of objects fills the cache.                           *)
(***************************************************************************)
EXTENDS Integers, Sequences, FiniteSets, TLC

\* ------------------------------------------------------------------ bounds
MAX_CACHE_SIZE == 3
MAX_OBJECT_SIZE == 2
\* The size of one read from the origin (csapp.h has MAXLINE 8192), scaled
\* with the object cap: like in the source, an object of the largest size
\* that is cached arrives in more than one read.
MAXLINE == 1

Threads == {1, 2}
URIS == {"A", "B", "C"}
\* The URIs concurrent threads ask for.
RaceURIS == {"A", "B"}
Bytes == {0, 1}

\* Payloads handed to the cache: one of every length from 1 to one past the
\* object cap, and a second one-byte payload with other content.
Payloads ==
    {[i \in 1..n |-> 0] : n \in 1..(MAX_OBJECT_SIZE + 1)} \cup {<<v>> : v \in Bytes}

\* Heap blocks Malloc can hand out for cache_block structures: one per URI
\* plus one in flight per thread.
Blocks == 1..(Cardinality(URIS) + Cardinality(Threads))

NULL == 0
NoUri == "-"
FreeBlock == [uri |-> NoUri, buf |-> <<>>, size |-> 0, prev |-> NULL, next |-> NULL]
NoCall == [op |-> "none", uri |-> NoUri, buf |-> <<>>]
NoBefore == [list |-> <<>>, used |-> 0]
NoLast == [op |-> "none", uri |-> NoUri, buf |-> <<>>, how |-> "none"]

\* What a client sends as its first line: nothing at all (read = 0), or a line
\* of whitespace-separated tokens.  Methods are character sequences, URIs are
\* the keys of the cache.
Methods == {<<"G", "E", "T">>, <<"g", "e", "t">>, <<"P", "O", "S", "T">>}
RequestLines ==
    {<<>>}
    \cup {<<m, u>> : m \in Methods, u \in RaceURIS}
    \cup {<<m, u, "HTTP/1.0">> : m \in Methods, u \in RaceURIS}
    \cup {<<m, u, "HTTP/1.0", "x">> : m \in {<<"G", "E", "T">>}, u \in RaceURIS}
Requests ==
    {[read |-> 0, tokens |-> <<>>]} \cup {[read |-> 1, tokens |-> l] : l \in RequestLines}
NoRequest == [read |-> 0, tokens |-> <<>>]

\* What an origin sends before it closes: nothing, or a payload.
Responses == {<<>>} \cup Payloads

\* The frame of doit: its position, its locals, what the client has been
\* sent (payload bytes and error responses), and the connection to the origin
\* with what the origin has yet to send.
NoFrame ==
    [pc |-> "idle", req |-> NoRequest, method |-> <<>>, uri |-> NoUri,
     sent |-> <<>>, errors |-> <<>>, server |-> "none", origin |-> <<>>,
     buf2 |-> <<>>, object_buf |-> <<>>, total_size |-> 0, can_cache |-> 1,
     stalled |-> FALSE]

\* What is noted of a request while it is handled, and of the one before it.
NoPrev == [uri |-> NoUri, sent |-> <<>>, resp |-> <<>>, ended |-> "none", look |-> "none"]
NoNote ==
    [snap |-> NoBefore, resp |-> <<>>, ended |-> "none",
     look |-> "none", look_ret |-> 0, look_sent |-> <<>>,
     lookups |-> 0, stores |-> 0, stored |-> <<>>, connects |-> 0, prev |-> NoPrev]

VARIABLES
    blk,         \* heap: block id -> cache_block fields (FreeBlock when not allocated)
    cache_head,  \* MRU end
    cache_tail,  \* LRU end
    cache_used,  \* byte total
    writer,      \* thread holding cache_rwlock in write mode, or NULL
    readers,     \* threads holding cache_rwlock in read mode
    pc,          \* position of each thread
    call,        \* the cache operation each thread is in, with its arguments
    nb,          \* cache_store: b, the block allocated for the new entry
    ptr,         \* the traversal pointer (p or q) of each thread
    localbuf,    \* cache_lookup_and_write: private copy of the payload
    served,      \* cache_lookup_and_write: local served
    sink,        \* bytes the current call has written to its client
    ret,         \* value returned by the finished cache_lookup_and_write
    how,         \* the path the finished call took
    pre,         \* history: the list as it was when the write lock of a store was taken
    racing,      \* history: threads whose store began while another store of the
                 \* same URI, not yet cached, was under way (and that other store)
    before,      \* history (sequential runs): list and cache_used when the current call began
    last,        \* history (sequential runs): the call completed before the current one
    recency,     \* history (sequential runs): URIs by most recent touch, newest first
    doit,        \* the frame of doit in each handler thread: its position, its
                 \* locals and both sockets
    note,        \* history (sequential runs): what each handler did for its request
    accepted,    \* history (concurrent runs): the connections main has accepted
    hdr,         \* build_requesthdrs: its arguments, the client's stream, buf and out_hdr
    pu,          \* parse_uri: its argument and its results
    cache,       \* part_000: cache[CACHE_CNT]
    cache_lock,  \* part_000: the thread holding cache_lock, or NULL
    global_time, \* part_000: global_time
    ts,          \* part_000: the frame of doit in each handler thread
    touched,     \* part_000, history: the slots by most recent hit or write, newest first
    cache_list,  \* part_001: the struct cache (head, tail, total_size, mutex)
    heap,        \* part_001: the cache_block structures Malloc has handed out
    sdoit,       \* part_001: the frame of doit in each handler thread
    rq           \* part_001: parse_uri and build_requesthdrs for one request

cachevars == <<blk, cache_head, cache_tail, cache_used>>
lockvars == <<writer, readers>>
threadvars == <<pc, call, nb, ptr, localbuf, served, sink, ret, how>>
histvars == <<before, last, recency>>
handlervars == <<doit, note, accepted>>
\* The variables of the rwlock variant's cache and handlers.
proxyvars == <<blk, cache_head, cache_tail, cache_used, writer, readers, pc, call, nb,
               ptr, localbuf, served, sink, ret, how, pre, racing, before, last,
               recency, doit, note, accepted>>
tsvars == <<cache, cache_lock, global_time, ts, touched>>
semvars == <<cache_list, heap, sdoit>>
othervars == <<hdr, pu, cache, cache_lock, global_time, ts, touched, cache_list, heap,
               sdoit, rq>>
vars == <<blk, cache_head, cache_tail, cache_used, writer, readers, pc, call, nb,
          ptr, localbuf, served, sink, ret, how, pre, racing, before, last, recency,
          doit, note, accepted, hdr, pu, cache, cache_lock, global_time, ts, touched,
          cache_list, heap, sdoit, rq>>

\* ------------------------------------------------------------- list view
RECURSIVE WalkFrom(_, _, _)
WalkFrom(h, x, n) ==
    IF x = NULL \/ n = 0 THEN <<>> ELSE <<x>> \o WalkFrom(h, h[x].next, n - 1)

\* Block ids from cache_head following next.
Chain == WalkFrom(blk, cache_head, Cardinality(Blocks) + 1)

EntryOf(h, x) == [uri |-> h[x].uri, buf |-> h[x].buf, size |-> h[x].size]

\* The cache as the ordered list of its entries, MRU first.
Entries == [i \in 1..Len(Chain) |-> EntryOf(blk, Chain[i])]

RECURSIVE SumSizes(_)
SumSizes(s) == IF s = <<>> THEN 0 ELSE Head(s).size + SumSizes(Tail(s))

Seq2Set(s) == {s[i] : i \in 1..Len(s)}

FreeBlocks == {x \in Blocks : blk[x].uri = NoUri}
Min(S) == CHOOSE x \in S : \A y \in S : x <= y

\* Malloc(sizeof(cache_block)): some free block.  The program never looks at
\* an address except to compare it with another pointer or with NULL, so which
\* free block is handed out does not change what it does; the model hands out
\* the block numbered after the URI when that one is free, else a spare one.
UriOrder == <<"A", "B", "C">>
UriIndex(u) == CHOOSE i \in 1..Len(UriOrder) : UriOrder[i] = u
Malloc(u) ==
    LET spare == {x \in FreeBlocks : x > Len(UriOrder)} IN
    IF UriIndex(u) \in FreeBlocks THEN UriIndex(u)
    ELSE IF spare # {} THEN Min(spare) ELSE Min(FreeBlocks)

\* ------------------------------------------------------------- list surgery
\* Faulty variant: move_to_head without the statement of line 438, cache_tail
\* is left on the block that moves.
MoveToHeadTailKept(h, hd, tl, x) ==
    IF x = hd THEN [blk |-> h, head |-> hd, tail |-> tl]
    ELSE
      LET h1 == IF h[x].prev # NULL THEN [h EXCEPT ![h[x].prev].next = h[x].next] ELSE h
          h2 == IF h1[x].next # NULL THEN [h1 EXCEPT ![h1[x].next].prev = h1[x].prev] ELSE h1
          h3 == [h2 EXCEPT ![x].prev = NULL, ![x].next = hd]
          h4 == IF hd # NULL THEN [h3 EXCEPT ![hd].prev = x] ELSE h3
      IN  [blk |-> h4, head |-> x, tail |-> tl]

\* move_to_head(b), statement by statement.
MoveToHead(h, hd, tl, x) ==
    IF x = hd THEN [blk |-> h, head |-> hd, tail |-> tl]
    ELSE
      LET h1 == IF h[x].prev # NULL THEN [h EXCEPT ![h[x].prev].next = h[x].next] ELSE h
          h2 == IF h1[x].next # NULL THEN [h1 EXCEPT ![h1[x].next].prev = h1[x].prev] ELSE h1
          tl1 == IF x = tl THEN h2[x].prev ELSE tl
          h3 == [h2 EXCEPT ![x].prev = NULL, ![x].next = hd]
          h4 == IF hd # NULL THEN [h3 EXCEPT ![hd].prev = x] ELSE h3
      IN  [blk |-> h4, head |-> x, tail |-> IF tl1 = NULL THEN x ELSE tl1]

\* evict_tail().
EvictTail(h, hd, tl, used) ==
    IF tl = NULL THEN [blk |-> h, head |-> hd, tail |-> tl, used |-> used]
    ELSE
      LET t == tl
          tl1 == IF h[t].prev # NULL THEN h[t].prev ELSE NULL
          hd1 == IF h[t].prev # NULL THEN hd ELSE NULL
          h1 == IF h[t].prev # NULL THEN [h EXCEPT ![h[t].prev].next = NULL] ELSE h
      IN  [blk |-> [h1 EXCEPT ![t] = FreeBlock], head |-> hd1, tail |-> tl1,
           used |-> used - h[t].size]

\* The head insertion of cache_store (b->next = cache_head; ...).
LinkAtHead(h, hd, tl, x) ==
    LET h1 == [h EXCEPT ![x].next = hd]
        h2 == IF hd # NULL THEN [h1 EXCEPT ![hd].prev = x] ELSE h1
    IN  [blk |-> h2, head |-> x, tail |-> IF tl = NULL THEN x ELSE tl]

\* ------------------------------------------------- frames of the other code
\* No call of build_requesthdrs is under way.
NoHdr ==
    [pc |-> "idle", hostname |-> <<>>, path |-> <<>>, port |-> 0, lines |-> <<>>,
     terminated |-> FALSE, stream |-> <<>>, buf |-> <<>>, out_hdr |-> <<>>]

\* No call of parse_uri is under way.
NoParse ==
    [pc |-> "idle", uri |-> <<>>, hostbegin |-> 0, hostbuf |-> <<>>,
     hostname |-> <<>>, path |-> <<>>, port |-> 0]

\* part_000: CACHE_CNT is 10 in the source (line 16), scaled.
CACHE_CNT == 2
\* part_000: a slot of the zero-initialised array cache[CACHE_CNT].
EmptySlot == [uri |-> NoUri, obj |-> <<>>, size |-> 0, timestamp |-> 0]
\* part_000: no handler thread runs doit.
NoTsFrame ==
    [pc |-> "idle", req |-> NoRequest, uri |-> NoUri, errors |-> <<>>,
     origin |-> <<>>, resp |-> <<>>, sent |-> <<>>, buf |-> <<>>, obj_buf |-> <<>>,
     total_size |-> 0, i |-> 0, victim |-> 0, hit |-> 0, wrote |-> 0]

\* part_001: the connections main accepts in a run.
MaxSemRequests == 5
\* part_001: the addresses Malloc(sizeof(cache_block)) can return.
SemBlocks == 1..MaxSemRequests
\* part_001: memory that holds no cache_block.
FreeNode == [url |-> NoUri, data |-> <<>>, size |-> 0, prev |-> NULL, next |-> NULL]
\* part_001: no handler thread runs doit.
NoSemFrame ==
    [pc |-> "idle", req |-> NoRequest, uri |-> NoUri, p |-> NULL, origin |-> <<>>,
     sent |-> <<>>, buf |-> <<>>, response_buf |-> <<>>, total_size |-> 0, hit |-> 0]
\* part_001: no request is being rewritten.
NoRq ==
    [pc |-> "idle", uri |-> <<>>, stream |-> <<>>, rest |-> <<>>, hostname |-> <<>>,
     path |-> <<>>, port |-> 0, has_host |-> 0, req_hdrs |-> <<>>]

\* ------------------------------------------------------------------ Init
ProxyInit ==
    /\ blk = [x \in Blocks |-> FreeBlock]
    /\ cache_head = NULL
    /\ cache_tail = NULL
    /\ cache_used = 0
    /\ writer = NULL
    /\ readers = {}
    /\ pc = [t \in Threads |-> "idle"]
    /\ call = [t \in Threads |-> NoCall]
    /\ nb = [t \in Threads |-> NULL]
    /\ ptr = [t \in Threads |-> NULL]
    /\ localbuf = [t \in Threads |-> <<>>]
    /\ served = [t \in Threads |-> -1]
    /\ sink = [t \in Threads |-> <<>>]
    /\ ret = [t \in Threads |-> 0]
    /\ how = [t \in Threads |-> "none"]
    /\ pre = <<>>
    /\ racing = {}
    /\ before = NoBefore
    /\ last = NoLast
    /\ recency = <<>>
    /\ doit = [t \in Threads |-> NoFrame]
    /\ note = [t \in Threads |-> NoNote]
    /\ accepted = 0

\* part_000: the globals are zero-initialised and no handler runs.
TsInit ==
    /\ cache = [i \in 1..CACHE_CNT |-> EmptySlot]
    /\ cache_lock = NULL
    /\ global_time = 0
    /\ ts = [t \in Threads |-> NoTsFrame]
    /\ touched = <<>>

\* part_001: cache_init, and no handler runs.
SemInit ==
    /\ cache_list = [head |-> NULL, tail |-> NULL, total_size |-> 0, mutex |-> NULL]
    /\ heap = [x \in SemBlocks |-> FreeNode]
    /\ sdoit = [t \in Threads |-> NoSemFrame]

Init ==
    /\ ProxyInit
    /\ hdr = NoHdr
    /\ pu = NoParse
    /\ TsInit
    /\ SemInit
    /\ rq = NoRq

\* ------------------------------------------------------------ lock steps
\* pthread_rwlock_rdlock: granted when no writer holds the lock.
CanRdlock == writer = NULL
\* pthread_rwlock_wrlock: granted when nobody holds the lock.
CanWrlock == writer = NULL /\ readers = {}

\* A call returns: the thread keeps the result until the caller takes it.
Finish(t, r, h) ==
    /\ pc' = [pc EXCEPT ![t] = "ret"]
    /\ ret' = [ret EXCEPT ![t] = r]
    /\ how' = [how EXCEPT ![t] = h]
    /\ ptr' = [ptr EXCEPT ![t] = NULL]

\* ---------------------------------------------------------- cache_store
\* cache_store(uri, buf, size) with size > MAX_OBJECT_SIZE: return at once.
StoreTooBig(t, u, b) ==
    /\ pc[t] = "idle"
    /\ Len(b) > MAX_OBJECT_SIZE
    /\ call' = [call EXCEPT ![t] = [op |-> "store", uri |-> u, buf |-> b]]
    /\ sink' = [sink EXCEPT ![t] = <<>>]
    /\ Finish(t, 0, "toobig")
    /\ UNCHANGED <<cachevars, lockvars, nb, localbuf, served, pre>>

\* Faulty variant: cache_store without the size check.
StoreBeginAnySize(t, u, b) ==
    /\ pc[t] = "idle"
    /\ FreeBlocks # {}
    /\ LET x == Malloc(u) IN
       /\ blk' = [blk EXCEPT ![x] = [uri |-> u, buf |-> b, size |-> Len(b),
                                     prev |-> NULL, next |-> NULL]]
       /\ nb' = [nb EXCEPT ![t] = x]
    /\ call' = [call EXCEPT ![t] = [op |-> "store", uri |-> u, buf |-> b]]
    /\ sink' = [sink EXCEPT ![t] = <<>>]
    /\ pc' = [pc EXCEPT ![t] = "store_wrlock"]
    /\ UNCHANGED <<cache_head, cache_tail, cache_used, lockvars, ptr, localbuf,
                   served, ret, how, pre>>

\* cache_store: allocate the new block and copy uri and buf into it.
StoreBegin(t, u, b) ==
    /\ pc[t] = "idle"
    /\ ~(Len(b) > MAX_OBJECT_SIZE)
    /\ FreeBlocks # {}
    /\ LET x == Malloc(u) IN
       /\ blk' = [blk EXCEPT ![x] = [uri |-> u, buf |-> b, size |-> Len(b),
                                     prev |-> NULL, next |-> NULL]]
       /\ nb' = [nb EXCEPT ![t] = x]
    /\ call' = [call EXCEPT ![t] = [op |-> "store", uri |-> u, buf |-> b]]
    /\ sink' = [sink EXCEPT ![t] = <<>>]
    /\ pc' = [pc EXCEPT ![t] = "store_wrlock"]
    /\ UNCHANGED <<cache_head, cache_tail, cache_used, lockvars, ptr, localbuf,
                   served, ret, how, pre>>

\* pthread_rwlock_wrlock, then p = cache_head.
StoreWrlock(t) ==
    /\ pc[t] = "store_wrlock"
    /\ CanWrlock
    /\ writer' = t
    /\ ptr' = [ptr EXCEPT ![t] = cache_head]
    /\ pre' = Entries
    /\ pc' = [pc EXCEPT ![t] = "store_search"]
    /\ UNCHANGED <<cachevars, readers, call, nb, localbuf, served, sink, ret, how>>

\* Faulty variant: the duplicate search steps over an entry without comparing URIs.
StoreSearchNextBlind(t) ==
    /\ pc[t] = "store_search"
    /\ ptr[t] # NULL
    /\ ptr' = [ptr EXCEPT ![t] = blk[ptr[t]].next]
    /\ UNCHANGED <<cachevars, lockvars, pc, call, nb, localbuf, served, sink, ret, how, pre>>

\* The duplicate search: p is not the URI, p = p->next.
StoreSearchNext(t) ==
    /\ pc[t] = "store_search"
    /\ ptr[t] # NULL
    /\ blk[ptr[t]].uri # call[t].uri
    /\ ptr' = [ptr EXCEPT ![t] = blk[ptr[t]].next]
    /\ UNCHANGED <<cachevars, lockvars, pc, call, nb, localbuf, served, sink, ret, how, pre>>

\* Faulty variant: the duplicate search finds the URI and the existing entry takes
\* the new payload before it is moved to the head.
StoreDupOverwrite(t) ==
    /\ pc[t] = "store_search"
    /\ ptr[t] # NULL
    /\ blk[ptr[t]].uri = call[t].uri
    /\ LET freed == [blk EXCEPT ![nb[t]] = FreeBlock,
                                ![ptr[t]].buf = call[t].buf,
                                ![ptr[t]].size = Len(call[t].buf)]
           m == MoveToHead(freed, cache_head, cache_tail, ptr[t])
       IN  /\ blk' = m.blk
           /\ cache_head' = m.head
           /\ cache_tail' = m.tail
    /\ nb' = [nb EXCEPT ![t] = NULL]
    /\ writer' = NULL
    /\ pre' = <<>>
    /\ Finish(t, 0, "dup")
    /\ UNCHANGED <<cache_used, readers, call, localbuf, served, sink>>

\* The duplicate search finds the URI: free the new block, move the existing
\* one to the head, unlock, return.
StoreDup(t) ==
    /\ pc[t] = "store_search"
    /\ ptr[t] # NULL
    /\ blk[ptr[t]].uri = call[t].uri
    /\ LET freed == [blk EXCEPT ![nb[t]] = FreeBlock]
           m == MoveToHead(freed, cache_head, cache_tail, ptr[t])
       IN  /\ blk' = m.blk
           /\ cache_head' = m.head
           /\ cache_tail' = m.tail
    /\ nb' = [nb EXCEPT ![t] = NULL]
    /\ writer' = NULL
    /\ pre' = <<>>
    /\ Finish(t, 0, "dup")
    /\ UNCHANGED <<cache_used, readers, call, localbuf, served, sink>>

\* The duplicate search reaches the end of the list.
StoreSearchEnd(t) ==
    /\ pc[t] = "store_search"
    /\ ptr[t] = NULL
    /\ pc' = [pc EXCEPT ![t] = "store_evict"]
    /\ UNCHANGED <<cachevars, lockvars, call, nb, ptr, localbuf, served, sink, ret, how, pre>>

\* Faulty variant: the eviction loop tests >= instead of >.
StoreEvictEager(t) ==
    /\ pc[t] = "store_evict"
    /\ cache_used + blk[nb[t]].size >= MAX_CACHE_SIZE
    /\ cache_tail # NULL
    /\ LET e == EvictTail(blk, cache_head, cache_tail, cache_used) IN
       /\ blk' = e.blk
       /\ cache_head' = e.head
       /\ cache_tail' = e.tail
       /\ cache_used' = e.used
    /\ UNCHANGED <<lockvars, threadvars, pre>>

\* One iteration of: while (cache_used + size > MAX_CACHE_SIZE) evict_tail().
StoreEvict(t) ==
    /\ pc[t] = "store_evict"
    /\ cache_used + blk[nb[t]].size > MAX_CACHE_SIZE
    /\ cache_tail # NULL
    /\ LET e == EvictTail(blk, cache_head, cache_tail, cache_used) IN
       /\ blk' = e.blk
       /\ cache_head' = e.head
       /\ cache_tail' = e.tail
       /\ cache_used' = e.used
    /\ UNCHANGED <<lockvars, threadvars, pre>>

\* Faulty variant: the new block is linked in without waiting for the eviction loop.
StoreInsertNoRoom(t) ==
    /\ pc[t] = "store_evict"
    /\ LET l == LinkAtHead(blk, cache_head, cache_tail, nb[t]) IN
       /\ blk' = l.blk
       /\ cache_head' = l.head
       /\ cache_tail' = l.tail
    /\ pc' = [pc EXCEPT ![t] = "store_account"]
    /\ UNCHANGED <<cache_used, lockvars, call, nb, ptr, localbuf, served, sink, ret, how, pre>>

\* The loop ends; the new block is linked in at the head.
StoreInsert(t) ==
    /\ pc[t] = "store_evict"
    /\ ~(cache_used + blk[nb[t]].size > MAX_CACHE_SIZE) \/ cache_tail = NULL
    /\ LET l == LinkAtHead(blk, cache_head, cache_tail, nb[t]) IN
       /\ blk' = l.blk
       /\ cache_head' = l.head
       /\ cache_tail' = l.tail
    /\ pc' = [pc EXCEPT ![t] = "store_account"]
    /\ UNCHANGED <<cache_used, lockvars, call, nb, ptr, localbuf, served, sink, ret, how, pre>>

\* cache_used += size; unlock; return.
StoreFinish(t) ==
    /\ pc[t] = "store_account"
    /\ cache_used' = cache_used + blk[nb[t]].size
    /\ nb' = [nb EXCEPT ![t] = NULL]
    /\ writer' = NULL
    /\ pre' = <<>>
    /\ Finish(t, 0, "inserted")
    /\ UNCHANGED <<blk, cache_head, cache_tail, readers, call, localbuf, served, sink>>

\* ------------------------------------------------ cache_lookup_and_write
\* Entry of cache_lookup_and_write(uri, clientfd): served = -1.
LookupBegin(t, u) ==
    /\ pc[t] = "idle"
    /\ call' = [call EXCEPT ![t] = [op |-> "lookup", uri |-> u, buf |-> <<>>]]
    /\ served' = [served EXCEPT ![t] = -1]
    /\ sink' = [sink EXCEPT ![t] = <<>>]
    /\ pc' = [pc EXCEPT ![t] = "lookup_rdlock"]
    /\ UNCHANGED <<cachevars, lockvars, nb, ptr, localbuf, ret, how, pre>>

\* pthread_rwlock_rdlock, then p = cache_head.
LookupRdlock(t) ==
    /\ pc[t] = "lookup_rdlock"
    /\ CanRdlock
    /\ readers' = readers \cup {t}
    /\ ptr' = [ptr EXCEPT ![t] = cache_head]
    /\ pc' = [pc EXCEPT ![t] = "lookup_scan"]
    /\ UNCHANGED <<cachevars, writer, call, nb, localbuf, served, sink, ret, how, pre>>

\* The scan: p is not the URI, p = p->next.
LookupNext(t) ==
    /\ pc[t] = "lookup_scan"
    /\ ptr[t] # NULL
    /\ blk[ptr[t]].uri # call[t].uri
    /\ ptr' = [ptr EXCEPT ![t] = blk[ptr[t]].next]
    /\ UNCHANGED <<cachevars, lockvars, pc, call, nb, localbuf, served, sink, ret, how, pre>>

\* Faulty variant: the scan ends without the URI and returns -1 with the read
\* lock still held.
LookupMissHolding(t) ==
    /\ pc[t] = "lookup_scan"
    /\ ptr[t] = NULL
    /\ Finish(t, -1, "miss")
    /\ UNCHANGED <<cachevars, lockvars, call, nb, localbuf, served, sink, pre>>

\* The scan reaches the end of the list: unlock, return -1.
LookupMiss(t) ==
    /\ pc[t] = "lookup_scan"
    /\ ptr[t] = NULL
    /\ readers' = readers \ {t}
    /\ Finish(t, -1, "miss")
    /\ UNCHANGED <<cachevars, writer, call, nb, localbuf, served, sink, pre>>

\* Faulty variant: the scan finds the URI and copies the payload, but keeps the
\* read lock for the client write.
LookupFoundHolding(t) ==
    /\ pc[t] = "lookup_scan"
    /\ ptr[t] # NULL
    /\ blk[ptr[t]].uri = call[t].uri
    /\ localbuf' = [localbuf EXCEPT ![t] = SubSeq(blk[ptr[t]].buf, 1, blk[ptr[t]].size)]
    /\ ptr' = [ptr EXCEPT ![t] = NULL]
    /\ pc' = [pc EXCEPT ![t] = "lookup_write"]
    /\ UNCHANGED <<cachevars, lockvars, call, nb, served, sink, ret, how, pre>>

\* Faulty variant: the scan finds the URI and copies one byte too few.
LookupFoundShort(t) ==
    /\ pc[t] = "lookup_scan"
    /\ ptr[t] # NULL
    /\ blk[ptr[t]].uri = call[t].uri
    /\ localbuf' = [localbuf EXCEPT ![t] = SubSeq(blk[ptr[t]].buf, 1, blk[ptr[t]].size - 1)]
    /\ readers' = readers \ {t}
    /\ ptr' = [ptr EXCEPT ![t] = NULL]
    /\ pc' = [pc EXCEPT ![t] = "lookup_write"]
    /\ UNCHANGED <<cachevars, writer, call, nb, served, sink, ret, how, pre>>

\* The scan finds the URI: copy size and payload into localbuf, unlock.
LookupFound(t) ==
    /\ pc[t] = "lookup_scan"
    /\ ptr[t] # NULL
    /\ blk[ptr[t]].uri = call[t].uri
    /\ localbuf' = [localbuf EXCEPT ![t] = SubSeq(blk[ptr[t]].buf, 1, blk[ptr[t]].size)]
    /\ readers' = readers \ {t}
    /\ ptr' = [ptr EXCEPT ![t] = NULL]
    /\ pc' = [pc EXCEPT ![t] = "lookup_write"]
    /\ UNCHANGED <<cachevars, writer, call, nb, served, sink, ret, how, pre>>

\* Rio_writen(clientfd, localbuf, objsize) succeeds: served = 0; Free(localbuf).
LookupWriteOk(t) ==
    /\ pc[t] = "lookup_write"
    /\ sink' = [sink EXCEPT ![t] = sink[t] \o localbuf[t]]
    /\ served' = [served EXCEPT ![t] = 0]
    /\ localbuf' = [localbuf EXCEPT ![t] = <<>>]
    /\ pc' = [pc EXCEPT ![t] = "lookup_wrlock"]
    /\ UNCHANGED <<cachevars, lockvars, call, nb, ptr, ret, how, pre>>

\* Rio_writen fails after k of the bytes went out: served stays -1.
LookupWriteFail(t, k) ==
    /\ pc[t] = "lookup_write"
    /\ k \in 0..Len(localbuf[t])
    /\ k < Len(localbuf[t]) \/ k = 0
    /\ sink' = [sink EXCEPT ![t] = sink[t] \o SubSeq(localbuf[t], 1, k)]
    /\ localbuf' = [localbuf EXCEPT ![t] = <<>>]
    /\ pc' = [pc EXCEPT ![t] = "lookup_wrlock"]
    /\ UNCHANGED <<cachevars, lockvars, call, nb, ptr, served, ret, how, pre>>

\* Faulty variant: the promotion starts without asking for the write lock.
LookupWrlockNotTaken(t) ==
    /\ pc[t] = "lookup_wrlock"
    /\ ptr' = [ptr EXCEPT ![t] = cache_head]
    /\ pc' = [pc EXCEPT ![t] = "lookup_promote"]
    /\ UNCHANGED <<cachevars, writer, readers, call, nb, localbuf, served, sink, ret, how, pre>>

\* pthread_rwlock_wrlock, then q = cache_head.
LookupWrlock(t) ==
    /\ pc[t] = "lookup_wrlock"
    /\ CanWrlock
    /\ writer' = t
    /\ ptr' = [ptr EXCEPT ![t] = cache_head]
    /\ pc' = [pc EXCEPT ![t] = "lookup_promote"]
    /\ UNCHANGED <<cachevars, readers, call, nb, localbuf, served, sink, ret, how, pre>>

\* The second search: q is not the URI, q = q->next.
LookupPromoteNext(t) ==
    /\ pc[t] = "lookup_promote"
    /\ ptr[t] # NULL
    /\ blk[ptr[t]].uri # call[t].uri
    /\ ptr' = [ptr EXCEPT ![t] = blk[ptr[t]].next]
    /\ UNCHANGED <<cachevars, lockvars, pc, call, nb, localbuf, served, sink, ret, how, pre>>

\* The second search finds the URI: move_to_head(q), unlock, return served.
LookupPromote(t) ==
    /\ pc[t] = "lookup_promote"
    /\ ptr[t] # NULL
    /\ blk[ptr[t]].uri = call[t].uri
    /\ LET m == MoveToHead(blk, cache_head, cache_tail, ptr[t]) IN
       /\ blk' = m.blk
       /\ cache_head' = m.head
       /\ cache_tail' = m.tail
    /\ writer' = NULL
    /\ Finish(t, served[t], "promoted")
    /\ UNCHANGED <<cache_used, readers, call, nb, localbuf, served, sink, pre>>

\* The second search reaches the end of the list: unlock, return served.
LookupPromoteGone(t) ==
    /\ pc[t] = "lookup_promote"
    /\ ptr[t] = NULL
    /\ writer' = NULL
    /\ Finish(t, served[t], "gone")
    /\ UNCHANGED <<cachevars, readers, call, nb, localbuf, served, sink, pre>>

\* The caller takes the result; the thread is ready for its next call.
Return(t) ==
    /\ pc[t] = "ret"
    /\ pc' = [pc EXCEPT ![t] = "idle"]
    /\ call' = [call EXCEPT ![t] = NoCall]
    /\ sink' = [sink EXCEPT ![t] = <<>>]
    /\ ret' = [ret EXCEPT ![t] = 0]
    /\ how' = [how EXCEPT ![t] = "none"]
    /\ served' = [served EXCEPT ![t] = -1]
    /\ UNCHANGED <<cachevars, lockvars, nb, ptr, localbuf, pre>>

\* --------------------------------------------------------- specifications
\* Handler threads run concurrently, each making any cache call at any time;
\* the histories of sequential runs are not kept.
StorePcs == {"store_wrlock", "store_search", "store_evict", "store_account"}

Rivals(t) ==
    {o \in Threads \ {t} : pc[o] \in StorePcs /\ call[o].uri = call'[t].uri}

RecordRace(t) ==
    racing' = IF /\ pc[t] = "idle" /\ pc'[t] = "store_wrlock"
                 /\ Rivals(t) # {}
                 /\ \A i \in 1..Len(Entries) : Entries[i].uri # call'[t].uri
              THEN racing \cup {t} \cup Rivals(t)
              ELSE IF pc'[t] = "idle" /\ t \in racing THEN {} ELSE racing

Race(A, t) ==
    A /\ RecordRace(t) /\ UNCHANGED histvars /\ UNCHANGED handlervars
      /\ UNCHANGED othervars

Next ==
    \E t \in Threads :
        \/ \E u \in RaceURIS, b \in Payloads : Race(StoreTooBig(t, u, b), t)
        \/ \E u \in RaceURIS, b \in Payloads : Race(StoreBegin(t, u, b), t)
        \/ Race(StoreWrlock(t), t)
        \/ Race(StoreSearchNext(t), t)
        \/ Race(StoreDup(t), t)
        \/ Race(StoreSearchEnd(t), t)
        \/ Race(StoreEvict(t), t)
        \/ Race(StoreInsert(t), t)
        \/ Race(StoreFinish(t), t)
        \/ \E u \in RaceURIS : Race(LookupBegin(t, u), t)
        \/ Race(LookupRdlock(t), t)
        \/ Race(LookupNext(t), t)
        \/ Race(LookupMiss(t), t)
        \/ Race(LookupFound(t), t)
        \/ Race(LookupWriteOk(t), t)
        \/ \E k \in 0..MAX_OBJECT_SIZE : Race(LookupWriteFail(t, k), t)
        \/ Race(LookupWrlock(t), t)
        \/ Race(LookupPromoteNext(t), t)
        \/ Race(LookupPromote(t), t)
        \/ Race(LookupPromoteGone(t), t)
        \/ Race(Return(t), t)

Spec == Init /\ [][Next]_vars

\* A run in which cache operations do not overlap (a single caller), with its
\* history: the list as it was when the current call began, the call that
\* completed before the current one (a store with its arguments and outcome,
\* or a lookup), and the URIs in the order they were last touched.  A touch is
\* a lookup that returned 0 or a store call the cache accepted.
Touched(t) ==
    \/ call'[t].op = "lookup" /\ ret'[t] = 0
    \/ call'[t].op = "store" /\ how'[t] \in {"inserted", "dup"}

Without(s, u) == SelectSeq(s, LAMBDA x : x # u)

Record(t) ==
    /\ before' = IF pc[t] = "idle" THEN [list |-> Entries, used |-> cache_used]
                 ELSE IF pc'[t] = "idle" THEN NoBefore ELSE before
    /\ recency' = IF pc[t] # "ret" /\ pc'[t] = "ret" /\ Touched(t)
                  THEN <<call'[t].uri>> \o Without(recency, call'[t].uri)
                  ELSE recency
    /\ last' = IF pc[t] # "ret" THEN last
               ELSE IF call[t].op = "store"
               THEN [op |-> "store", uri |-> call[t].uri, buf |-> call[t].buf,
                     how |-> how[t]]
               ELSE [op |-> "lookup", uri |-> NoUri, buf |-> <<>>, how |-> "none"]

Solo(A, t) ==
    A /\ Record(t) /\ UNCHANGED racing /\ UNCHANGED handlervars
      /\ UNCHANGED othervars

SeqThreads == {Min(Threads)}

\* With a single caller the entry a lookup found is still there when the
\* lookup searches again, so LookupPromoteGone has no step here.
SeqNext ==
    \E t \in SeqThreads :
        \/ \E u \in URIS, b \in Payloads : Solo(StoreTooBig(t, u, b), t)
        \/ \E u \in URIS, b \in Payloads : Solo(StoreBegin(t, u, b), t)
        \/ Solo(StoreWrlock(t), t)
        \/ Solo(StoreSearchNext(t), t)
        \/ Solo(StoreDup(t), t)
        \/ Solo(StoreSearchEnd(t), t)
        \/ Solo(StoreEvict(t), t)
        \/ Solo(StoreInsert(t), t)
        \/ Solo(StoreFinish(t), t)
        \/ \E u \in URIS : Solo(LookupBegin(t, u), t)
        \/ Solo(LookupRdlock(t), t)
        \/ Solo(LookupNext(t), t)
        \/ Solo(LookupMiss(t), t)
        \/ Solo(LookupFound(t), t)
        \/ Solo(LookupWriteOk(t), t)
        \/ \E k \in 0..MAX_OBJECT_SIZE : Solo(LookupWriteFail(t, k), t)
        \/ Solo(LookupWrlock(t), t)
        \/ Solo(LookupPromoteNext(t), t)
        \/ Solo(LookupPromote(t), t)
        \/ Solo(Return(t), t)

SeqSpec == Init /\ [][SeqNext]_vars

\* -------------------------------------------------------- C strings
UpperCase == <<"A", "B", "C", "D", "E", "F", "G", "H", "I", "J", "K", "L", "M",
               "N", "O", "P", "Q", "R", "S", "T", "U", "V", "W", "X", "Y", "Z">>
LowerCase == <<"a", "b", "c", "d", "e", "f", "g", "h", "i", "j", "k", "l", "m",
               "n", "o", "p", "q", "r", "s", "t", "u", "v", "w", "x", "y", "z">>
tolower(c) ==
    IF \E i \in 1..26 : UpperCase[i] = c
    THEN LowerCase[CHOOSE i \in 1..26 : UpperCase[i] = c]
    ELSE c

\* strcasecmp(a, b) == 0
strcasecmp0(a, b) ==
    Len(a) = Len(b) /\ \A i \in 1..Len(a) : tolower(a[i]) = tolower(b[i])

\* strncasecmp(a, b, n) == 0 for a literal b of exactly n characters.
strncasecmp0(a, b, n) ==
    Len(a) >= n /\ \A i \in 1..n : tolower(a[i]) = tolower(b[i])

\* ------------------------------------------------------------------ doit
\* sscanf(buf, "%s %s %s", method, uri, version): the number of fields
\* assigned, EOF (-1) when the line holds none.
sscanf3(tokens) == IF Len(tokens) = 0 THEN -1 ELSE Min({Len(tokens), 3})

\* clienterror: the status line, two header lines and the body of one error
\* response, written to the client.
clienterror(f, errnum) == [f EXCEPT !.errors = @ \o <<errnum>>]

Running(t) == ~doit[t].stalled
At(t, where) == doit[t].pc = where /\ Running(t)
SetFrame(t, f) == doit' = [doit EXCEPT ![t] = f]

\* main accepts a connection and creates the thread that runs doit on it.
DoitAccept(t, r) ==
    /\ At(t, "idle")
    /\ pc[t] = "idle"
    /\ SetFrame(t, [NoFrame EXCEPT !.pc = "readline", !.req = r])
    /\ UNCHANGED <<cachevars, lockvars, threadvars, pre>>

\* Rio_readlineb(&rio, buf, MAXLINE) <= 0: return.
DoitNoRequest(t) ==
    /\ At(t, "readline")
    /\ doit[t].req.read = 0
    /\ SetFrame(t, [doit[t] EXCEPT !.pc = "returned"])
    /\ UNCHANGED <<cachevars, lockvars, threadvars, pre>>

\* sscanf(...) != 3: clienterror 400, return.
DoitBadRequest(t) ==
    /\ At(t, "readline")
    /\ doit[t].req.read = 1
    /\ sscanf3(doit[t].req.tokens) # 3
    /\ SetFrame(t, [clienterror(doit[t], "400") EXCEPT !.pc = "returned"])
    /\ UNCHANGED <<cachevars, lockvars, threadvars, pre>>

\* Faulty variant: a method other than GET is reported, but doit goes on.
DoitNotImplementedGoesOn(t) ==
    /\ At(t, "readline")
    /\ doit[t].req.read = 1
    /\ sscanf3(doit[t].req.tokens) = 3
    /\ ~strcasecmp0(doit[t].req.tokens[1], <<"G", "E", "T">>)
    /\ SetFrame(t, [clienterror(doit[t], "501") EXCEPT
                        !.pc = "lookup",
                        !.method = doit[t].req.tokens[1],
                        !.uri = doit[t].req.tokens[2]])
    /\ UNCHANGED <<cachevars, lockvars, threadvars, pre>>

\* strcasecmp(method, "GET") != 0: clienterror 501, return.
DoitNotImplemented(t) ==
    /\ At(t, "readline")
    /\ doit[t].req.read = 1
    /\ sscanf3(doit[t].req.tokens) = 3
    /\ ~strcasecmp0(doit[t].req.tokens[1], <<"G", "E", "T">>)
    /\ SetFrame(t, [clienterror(doit[t], "501") EXCEPT
                        !.pc = "returned", !.method = doit[t].req.tokens[1]])
    /\ UNCHANGED <<cachevars, lockvars, threadvars, pre>>

\* The request line is a GET with three fields.
DoitRequest(t) ==
    /\ At(t, "readline")
    /\ doit[t].req.read = 1
    /\ sscanf3(doit[t].req.tokens) = 3
    /\ strcasecmp0(doit[t].req.tokens[1], <<"G", "E", "T">>)
    /\ SetFrame(t, [doit[t] EXCEPT !.pc = "lookup",
                                   !.method = doit[t].req.tokens[1],
                                   !.uri = doit[t].req.tokens[2]])
    /\ UNCHANGED <<cachevars, lockvars, threadvars, pre>>

\* cache_lookup_and_write(uri, connfd) is called.
DoitLookup(t) ==
    /\ At(t, "lookup")
    /\ LookupBegin(t, doit[t].uri)
    /\ SetFrame(t, [doit[t] EXCEPT !.pc = "in_lookup"])

\* cache_lookup_and_write returned 0: return.
DoitHit(t) ==
    /\ At(t, "in_lookup")
    /\ pc[t] = "ret"
    /\ ret[t] = 0
    /\ Return(t)
    /\ SetFrame(t, [doit[t] EXCEPT !.pc = "returned", !.sent = @ \o sink[t]])

\* cache_lookup_and_write returned -1: parse_uri and build_requesthdrs, which
\* reads the client's header lines.
DoitMiss(t) ==
    /\ At(t, "in_lookup")
    /\ pc[t] = "ret"
    /\ ret[t] # 0
    /\ Return(t)
    /\ SetFrame(t, [doit[t] EXCEPT !.pc = "connect", !.sent = @ \o sink[t]])

\* Open_clientfd(hostname, port) < 0: clienterror 502, return.
DoitConnectFail(t) ==
    /\ At(t, "connect")
    /\ SetFrame(t, [clienterror(doit[t], "502") EXCEPT !.pc = "returned"])
    /\ UNCHANGED <<cachevars, lockvars, threadvars, pre>>

\* Open_clientfd succeeds; resp is what this origin is going to send.
DoitConnect(t, resp) ==
    /\ At(t, "connect")
    /\ SetFrame(t, [doit[t] EXCEPT !.pc = "send", !.server = "open",
                                   !.origin = resp])
    /\ UNCHANGED <<cachevars, lockvars, threadvars, pre>>

\* Faulty variant: the failed send returns without Close(clientfd).
DoitSendFailLeaks(t) ==
    /\ At(t, "send")
    /\ SetFrame(t, [doit[t] EXCEPT !.pc = "returned"])
    /\ UNCHANGED <<cachevars, lockvars, threadvars, pre>>

\* Rio_writen(clientfd, requesthdrs, ...) < 0: Close(clientfd), return.
DoitSendFail(t) ==
    /\ At(t, "send")
    /\ SetFrame(t, [doit[t] EXCEPT !.pc = "returned", !.server = "closed"])
    /\ UNCHANGED <<cachevars, lockvars, threadvars, pre>>

\* The request is sent: total_size = 0, object_buf = Malloc(...), can_cache = 1.
DoitSend(t) ==
    /\ At(t, "send")
    /\ SetFrame(t, [doit[t] EXCEPT !.pc = "relay_read", !.total_size = 0,
                                   !.object_buf = <<>>, !.can_cache = 1])
    /\ UNCHANGED <<cachevars, lockvars, threadvars, pre>>

\* n = Rio_readnb(&server_rio, buf2, MAXLINE) > 0: MAXLINE bytes, fewer only
\* when the origin closes after them.
RelayRead(t) ==
    /\ At(t, "relay_read")
    /\ doit[t].origin # <<>>
    /\ LET n == Min({MAXLINE, Len(doit[t].origin)}) IN
       SetFrame(t, [doit[t] EXCEPT !.pc = "relay_write",
                                   !.buf2 = SubSeq(doit[t].origin, 1, n),
                                   !.origin = SubSeq(doit[t].origin, n + 1,
                                                     Len(doit[t].origin))])
    /\ UNCHANGED <<cachevars, lockvars, threadvars, pre>>

\* n = 0: the origin has closed after its last byte; the loop ends.
RelayEof(t) ==
    /\ At(t, "relay_read")
    /\ doit[t].origin = <<>>
    /\ SetFrame(t, [doit[t] EXCEPT !.pc = "relay_end"])
    /\ UNCHANGED <<cachevars, lockvars, threadvars, pre>>

\* n < 0: the read from the origin fails; the loop ends.
RelayReadError(t) ==
    /\ At(t, "relay_read")
    /\ SetFrame(t, [doit[t] EXCEPT !.pc = "relay_end"])
    /\ UNCHANGED <<cachevars, lockvars, threadvars, pre>>

\* Rio_writen(connfd, buf2, n) < 0 after k bytes went out: break.
RelayWriteFail(t, k) ==
    /\ At(t, "relay_write")
    /\ k < Len(doit[t].buf2)
    /\ SetFrame(t, [doit[t] EXCEPT !.pc = "relay_end",
                                   !.sent = @ \o SubSeq(doit[t].buf2, 1, k)])
    /\ UNCHANGED <<cachevars, lockvars, threadvars, pre>>

\* Faulty variant: a chunk that does not fit is left out and can_cache stays
\* set.
AccumulateSkips(f) ==
    LET n == Len(f.buf2) IN
    IF f.can_cache = 1
    THEN IF f.total_size + n > MAX_OBJECT_SIZE
         THEN f
         ELSE [f EXCEPT !.object_buf = SubSeq(f.object_buf, 1, f.total_size) \o f.buf2,
                        !.total_size = f.total_size + n]
    ELSE f

\* The accumulation of one chunk: the if (can_cache) statement.
Accumulate(f) ==
    LET n == Len(f.buf2) IN
    IF f.can_cache = 1
    THEN IF f.total_size + n > MAX_OBJECT_SIZE
         THEN [f EXCEPT !.can_cache = 0]
         ELSE [f EXCEPT !.object_buf = SubSeq(f.object_buf, 1, f.total_size) \o f.buf2,
                        !.total_size = f.total_size + n]
    ELSE f

\* Rio_writen(connfd, buf2, n) succeeds; the chunk is accumulated.
RelayWrite(t) ==
    /\ At(t, "relay_write")
    /\ SetFrame(t, [Accumulate(doit[t]) EXCEPT !.pc = "relay_read",
                                               !.sent = @ \o doit[t].buf2])
    /\ UNCHANGED <<cachevars, lockvars, threadvars, pre>>

\* can_cache && total_size > 0: cache_store(uri, object_buf, total_size).
DoitStore(t) ==
    /\ At(t, "relay_end")
    /\ doit[t].can_cache = 1 /\ doit[t].total_size > 0
    /\ LET b == SubSeq(doit[t].object_buf, 1, doit[t].total_size) IN
       /\ \/ StoreBegin(t, doit[t].uri, b)
          \/ StoreTooBig(t, doit[t].uri, b)
       /\ SetFrame(t, [doit[t] EXCEPT !.pc = "in_store"])

\* Nothing to store: Free(object_buf), Close(clientfd).
DoitNoStore(t) ==
    /\ At(t, "relay_end")
    /\ ~(doit[t].can_cache = 1 /\ doit[t].total_size > 0)
    /\ SetFrame(t, [doit[t] EXCEPT !.pc = "returned", !.server = "closed"])
    /\ UNCHANGED <<cachevars, lockvars, threadvars, pre>>

\* cache_store returned: Free(object_buf), Close(clientfd).
DoitStored(t) ==
    /\ At(t, "in_store")
    /\ pc[t] = "ret"
    /\ Return(t)
    /\ SetFrame(t, [doit[t] EXCEPT !.pc = "returned", !.server = "closed"])

\* thread: doit has returned, Close(connfd).
ThreadClose(t) ==
    /\ At(t, "returned")
    /\ SetFrame(t, NoFrame)
    /\ UNCHANGED <<cachevars, lockvars, threadvars, pre>>

\* A step of the cache operation doit is in.
InCall(A, t) ==
    /\ Running(t)
    /\ doit[t].pc \in {"in_lookup", "in_store"}
    /\ A
    /\ UNCHANGED doit

\* One handler at a time, one request after the other, with the history of
\* each request: ev says what the step was.
Noted(t, ev) ==
    LET n == note[t] IN
    CASE ev = "accept" ->
           [NoNote EXCEPT !.snap = [list |-> Entries, used |-> cache_used],
                          !.prev = n.prev]
      [] ev = "lookup" -> [n EXCEPT !.lookups = @ + 1]
      [] ev = "looked" ->
           [n EXCEPT !.look = how[t], !.look_ret = ret[t], !.look_sent = sink[t]]
      [] ev = "connectfail" -> [n EXCEPT !.connects = @ + 1]
      [] ev = "connect" -> [n EXCEPT !.connects = @ + 1, !.resp = doit'[t].origin]
      [] ev \in {"eof", "readerr", "writefail"} -> [n EXCEPT !.ended = ev]
      [] ev = "store" ->
           [n EXCEPT !.stores = @ + 1,
                     !.stored = SubSeq(doit[t].object_buf, 1, doit[t].total_size)]
      [] ev = "close" ->
           [NoNote EXCEPT !.prev = [uri |-> doit[t].uri, sent |-> doit[t].sent,
                                    resp |-> n.resp, ended |-> n.ended,
                                    look |-> n.look]]
      [] OTHER -> n

One(A, t, ev) ==
    /\ A
    /\ note' = [note EXCEPT ![t] = Noted(t, ev)]
    /\ UNCHANGED <<accepted, racing, histvars, othervars>>

DoitNext ==
    \E t \in SeqThreads :
        \/ \E r \in Requests : One(DoitAccept(t, r), t, "accept")
        \/ One(DoitNoRequest(t), t, "")
        \/ One(DoitBadRequest(t), t, "")
        \/ One(DoitNotImplemented(t), t, "")
        \/ One(DoitRequest(t), t, "")
        \/ One(DoitLookup(t), t, "lookup")
        \/ One(DoitHit(t), t, "looked")
        \/ One(DoitMiss(t), t, "looked")
        \/ One(DoitConnectFail(t), t, "connectfail")
        \/ \E resp \in Responses : One(DoitConnect(t, resp), t, "connect")
        \/ One(DoitSendFail(t), t, "")
        \/ One(DoitSend(t), t, "")
        \/ One(RelayRead(t), t, "")
        \/ One(RelayEof(t), t, "eof")
        \/ One(RelayReadError(t), t, "readerr")
        \/ \E k \in 0..MAXLINE : One(RelayWriteFail(t, k), t, "writefail")
        \/ One(RelayWrite(t), t, "")
        \/ One(DoitStore(t), t, "store")
        \/ One(DoitNoStore(t), t, "")
        \/ One(DoitStored(t), t, "")
        \/ One(ThreadClose(t), t, "close")
        \/ One(InCall(StoreWrlock(t), t), t, "")
        \/ One(InCall(StoreSearchNext(t), t), t, "")
        \/ One(InCall(StoreDup(t), t), t, "")
        \/ One(InCall(StoreSearchEnd(t), t), t, "")
        \/ One(InCall(StoreEvict(t), t), t, "")
        \/ One(InCall(StoreInsert(t), t), t, "")
        \/ One(InCall(StoreFinish(t), t), t, "")
        \/ One(InCall(LookupRdlock(t), t), t, "")
        \/ One(InCall(LookupNext(t), t), t, "")
        \/ One(InCall(LookupMiss(t), t), t, "")
        \/ One(InCall(LookupFound(t), t), t, "")
        \/ One(InCall(LookupWriteOk(t), t), t, "")
        \/ \E k \in 0..MAX_OBJECT_SIZE : One(InCall(LookupWriteFail(t, k), t), t, "")
        \/ One(InCall(LookupWrlock(t), t), t, "")
        \/ One(InCall(LookupPromoteNext(t), t), t, "")
        \/ One(InCall(LookupPromote(t), t), t, "")

DoitSpec == Init /\ [][DoitNext]_vars

\* ------------------------------------------------------------------ claims
UrisOf(es) == [i \in 1..Len(es) |-> es[i].uri]
EntriesFor(u) == {i \in 1..Len(Entries) : Entries[i].uri = u}
InCache(u) == EntriesFor(u) # {}
Returned(t, op) == pc[t] = "ret" /\ call[t].op = op

NoDupUris ==
    \A i, j \in 1..Len(Chain) : i # j => blk[Chain[i]].uri # blk[Chain[j]].uri

\* C1: under every interleaving of stores and lookups the list holds at most
\* one entry per URI; after two racing stores of the same new URI have both
\* returned, exactly one entry for that URI exists and its payload is the
\* payload of one of the two stores.
C1_OneEntryPerUri ==
    /\ NoDupUris
    /\ \A a, b \in racing :
         ( /\ a # b
           /\ Returned(a, "store") /\ Returned(b, "store")
           /\ call[a].uri = call[b].uri )
         => /\ Cardinality(EntriesFor(call[a].uri)) = 1
            /\ \A i \in EntriesFor(call[a].uri) :
                 Entries[i].buf \in {call[a].buf, call[b].buf}

\* Two racing stores of one URI with different payloads have both returned:
\* one inserted, the other found the duplicate; the winner's payload is cached.
C1_Witness ==
    \E a, b \in racing :
        /\ a # b
        /\ Returned(a, "store") /\ Returned(b, "store")
        /\ call[a].uri = call[b].uri
        /\ call[a].buf # call[b].buf
        /\ how[a] = "inserted" /\ how[b] = "dup"
        /\ \E i \in EntriesFor(call[a].uri) : Entries[i].buf = call[a].buf

\* C2: whenever no thread is inside a write-locked section, cache_used (and
\* the bytes the list really holds) is at most MAX_CACHE_SIZE.
C2_UsedWithinCapacity ==
    writer = NULL =>
        /\ cache_used <= MAX_CACHE_SIZE
        /\ SumSizes(Entries) <= MAX_CACHE_SIZE

\* A store has just inserted into a cache that is now exactly full.
C2_Witness ==
    /\ writer = NULL
    /\ cache_used = MAX_CACHE_SIZE
    /\ Len(Entries) >= 2
    /\ \E t \in Threads : Returned(t, "store") /\ how[t] = "inserted"

\* The call before the current one was an accepted cache_store for the URI
\* the current lookup asked for, and the lookup has returned.
StoreThenLookup(t) ==
    /\ Returned(t, "lookup")
    /\ last.op = "store"
    /\ last.uri = call[t].uri
    /\ Len(last.buf) <= MAX_OBJECT_SIZE

\* C3 as stated: a cache_store(key, payload) with a payload within the object
\* cap, followed immediately by cache_lookup_and_write(key), returns 0 and
\* writes exactly that payload to the client.
C3_StoreThenLookupAsStated ==
    \A t \in Threads :
        StoreThenLookup(t) => ret[t] = 0 /\ sink[t] = last.buf

\* C3 amended: the lookup that immediately follows an accepted store finds the
\* entry for the key and promotes it; it returns 0 exactly when the client
\* write delivered the whole payload of that entry, and -1 with only a part of
\* it written otherwise; the entry's payload is the payload of that store when
\* the store inserted it (no entry for the key existed).
C3_StoreThenLookup ==
    \A t \in Threads :
        StoreThenLookup(t) =>
            /\ how[t] = "promoted"
            /\ Entries # <<>> /\ Entries[1].uri = call[t].uri
            /\ ret[t] \in {0, -1}
            /\ ret[t] = 0 <=> sink[t] = Entries[1].buf
            /\ \E k \in 0..Len(Entries[1].buf) : sink[t] = SubSeq(Entries[1].buf, 1, k)
            /\ last.how \in {"inserted", "dup"}
            /\ last.how = "inserted" => Entries[1].buf = last.buf

\* A store found its key already cached with another payload; the lookup that
\* followed returned 0 and wrote the older payload.
C3_Witness ==
    \E t \in Threads :
        /\ StoreThenLookup(t)
        /\ last.how = "dup"
        /\ ret[t] = 0
        /\ sink[t] = Entries[1].buf
        /\ sink[t] # last.buf

\* C4 as stated: between cache operations, the head-to-tail order of the list
\* is the order of the cached URIs by their most recent touch (a lookup that
\* returned 0, or a store call the cache accepted), most recent first.
C4_RecencyOrder ==
    (\A t \in Threads : pc[t] \in {"idle", "ret"}) =>
        UrisOf(Entries) = SelectSeq(recency, InCache)

\* C5: the fewest tail entries whose removal makes room for size more bytes.
Fits(es, k, size) == SumSizes(SubSeq(es, 1, Len(es) - k)) + size <= MAX_CACHE_SIZE
MinEvictions(es, size) == Min({k \in 0..Len(es) : Fits(es, k, size)})
NewEntry(t) == [uri |-> call[t].uri, buf |-> call[t].buf, size |-> Len(call[t].buf)]

C5_Evicting ==
    \A t \in Threads :
        /\ pc[t] = "store_evict" =>
             /\ \E j \in 0..MinEvictions(pre, Len(call[t].buf)) :
                    Entries = SubSeq(pre, 1, Len(pre) - j)
             /\ cache_used = SumSizes(Entries)
        /\ pc[t] = "store_account" =>
             LET k == MinEvictions(pre, Len(call[t].buf)) IN
             /\ Entries = <<NewEntry(t)>> \o SubSeq(pre, 1, Len(pre) - k)
             /\ cache_used = SumSizes(SubSeq(pre, 1, Len(pre) - k))

C5_Step ==
    \A t \in Threads :
        /\ (pc[t] = "store_evict" /\ pc'[t] = "store_evict" /\ Entries' # Entries) =>
               Entries' = SubSeq(Entries, 1, Len(Entries) - 1)
        /\ (pc[t] = "store_account" /\ pc'[t] = "ret") =>
               /\ Entries' = Entries
               /\ cache_used' = cache_used + Len(call[t].buf)

\* C5: a cache_store that inserts a new key evicts exactly the k entries at
\* the tail end, tail first and one at a time, k being the smallest number
\* whose removal makes cache_used + size <= MAX_CACHE_SIZE (none when the
\* payload already fits); the new entry is then at the head and cache_used
\* grows by exactly size.
C5_MinimalTailEviction == []C5_Evicting /\ [][C5_Step]_vars

\* A store is about to account for an entry it inserted after evicting two.
C5_Witness ==
    \E t \in Threads :
        /\ pc[t] = "store_account"
        /\ MinEvictions(pre, Len(call[t].buf)) = 2
        /\ Len(Entries) = Len(pre) - 1

\* C6 as stated: from the moment a lookup has found its entry until it has
\* moved it to the head, no step of another thread changes the list or
\* cache_used.
C6_AtomicLookupPromote ==
    [][\A t \in Threads :
          pc[t] \in {"lookup_write", "lookup_wrlock"} =>
              Entries' = Entries /\ cache_used' = cache_used]_vars

\* C7: a thread that is writing a cached payload to its client holds
\* cache_rwlock in no mode, so a thread waiting for the lock gets it unless a
\* third thread holds it.
OthersHoldNoLock(a, b) ==
    \A x \in Threads \ {a, b} : writer # x /\ x \notin readers

C7_NoLockDuringClientWrite ==
    \A t \in Threads :
        pc[t] = "lookup_write" =>
            /\ writer # t
            /\ t \notin readers
            /\ \A o \in Threads \ {t} :
                 /\ (pc[o] = "store_wrlock" /\ OthersHoldNoLock(t, o))
                       => ENABLED StoreWrlock(o)
                 /\ (pc[o] = "lookup_wrlock" /\ OthersHoldNoLock(t, o))
                       => ENABLED LookupWrlock(o)
                 /\ (pc[o] = "lookup_rdlock" /\ OthersHoldNoLock(t, o))
                       => ENABLED LookupRdlock(o)

\* One thread's client write is pending while another is inside a
\* write-locked section of cache_store.
C7_Witness ==
    \E t, o \in Threads :
        /\ pc[t] = "lookup_write"
        /\ writer = o
        /\ pc[o] \in {"store_search", "store_evict", "store_account"}

\* The list with its i-th entry moved to the front.
Promoted(es, i) ==
    [j \in 1..Len(es) |-> IF j = 1 THEN es[i] ELSE IF j <= i THEN es[j - 1] ELSE es[j]]

\* C8: a cache_store for a URI that already has an entry leaves the entries,
\* their payloads and sizes and cache_used as they were, evicts nothing,
\* discards the new payload and leaves the existing entry at the head.
C8_StoreExistingOnlyPromotes ==
    [][\A t \in Threads :
          (pc[t] = "store_search" /\ pc'[t] = "ret") =>
              /\ InCache(call[t].uri)
              /\ \A i \in EntriesFor(call[t].uri) : Entries' = Promoted(Entries, i)
              /\ cache_used' = cache_used
              /\ blk'[nb[t]] = FreeBlock
              /\ Seq2Set(Chain') = Seq2Set(Chain)]_vars

\* A store of another payload for a cached URI has returned; the entry, now
\* at the head of a longer list, still holds the earlier payload.
C8_Witness ==
    \E t \in Threads :
        /\ Returned(t, "store") /\ how[t] = "dup"
        /\ Len(Entries) >= 2
        /\ Entries[1].uri = call[t].uri
        /\ Entries[1].buf # call[t].buf

SizesWithinCap ==
    \A i \in 1..Len(Entries) :
        Entries[i].size <= MAX_OBJECT_SIZE /\ Len(Entries[i].buf) = Entries[i].size

\* C9: cache_store with size > MAX_OBJECT_SIZE changes nothing (list, order,
\* cache_used); a lookup that follows it for a key that had no entry returns
\* -1 without writing; every entry of the cache has size <= MAX_OBJECT_SIZE.
C9_OversizeRejected ==
    /\ SizesWithinCap
    /\ \A t \in Threads :
         /\ (Returned(t, "store") /\ Len(call[t].buf) > MAX_OBJECT_SIZE) =>
                /\ how[t] = "toobig"
                /\ Entries = before.list
                /\ cache_used = before.used
                /\ writer = NULL /\ readers = {}
         /\ ( /\ Returned(t, "lookup")
              /\ last.op = "store" /\ last.how = "toobig"
              /\ last.uri = call[t].uri
              /\ \A i \in 1..Len(before.list) : before.list[i].uri # call[t].uri )
            => ret[t] = -1 /\ how[t] = "miss" /\ sink[t] = <<>>

\* An oversize store for an uncached key was followed by a lookup for that
\* key, which missed; the cache is not empty.
C9_Witness ==
    \E t \in Threads :
        /\ Returned(t, "lookup")
        /\ last.op = "store" /\ last.how = "toobig"
        /\ last.uri = call[t].uri
        /\ ret[t] = -1 /\ how[t] = "miss"
        /\ Entries # <<>>

\* C10 as stated: whenever cache_lookup_and_write returns -1, the call wrote
\* no byte to the client and the entries, their order and cache_used are what
\* they were before the call.
C10_MissLeavesNoTrace ==
    \A t \in Threads :
        (Returned(t, "lookup") /\ ret[t] = -1) =>
            /\ sink[t] = <<>>
            /\ Entries = before.list
            /\ cache_used = before.used

\* --------------------------------------------- concurrent handlers
\* The connections accepted in a concurrent run.
MaxConnections == 3
FairRequests ==
    {NoRequest, [read |-> 1, tokens |-> <<>>],
     [read |-> 1, tokens |-> <<<<"P", "O", "S", "T">>, "A", "HTTP/1.0">>]}
    \cup {[read |-> 1, tokens |-> <<<<"G", "E", "T">>, u, "HTTP/1.0">>] : u \in RaceURIS}
FairResponses == {<<>>} \cup {[i \in 1..n |-> 0] : n \in 1..MAX_OBJECT_SIZE}

\* The socket calls a handler can be blocked in: reading the request line,
\* writing to or reading from the origin, writing to the client during the
\* relay or during a cache hit.
InSocketCall(t) ==
    \/ doit[t].pc \in {"readline", "send", "relay_read", "relay_write"}
    \/ doit[t].pc = "in_lookup" /\ pc[t] = "lookup_write"

\* The peer never answers: the handler stays in its socket call for ever.
Stall(t) ==
    /\ Running(t)
    /\ InSocketCall(t)
    /\ SetFrame(t, [doit[t] EXCEPT !.stalled = TRUE])
    /\ UNCHANGED <<cachevars, lockvars, threadvars, pre>>

\* Handlers run concurrently; no history is kept.
Conc(A) == A /\ UNCHANGED <<note, accepted, racing, histvars, othervars>>

\* main accepts one more connection.
ConcAccept(t, r) ==
    /\ accepted < MaxConnections
    /\ DoitAccept(t, r)
    /\ accepted' = accepted + 1
    /\ UNCHANGED <<note, racing, histvars, othervars>>

\* The steps a handler takes once it has a connection and its socket calls
\* return.
Progress(t) ==
    \/ Conc(DoitNoRequest(t))
    \/ Conc(DoitBadRequest(t))
    \/ Conc(DoitNotImplemented(t))
    \/ Conc(DoitRequest(t))
    \/ Conc(DoitLookup(t))
    \/ Conc(DoitHit(t))
    \/ Conc(DoitMiss(t))
    \/ Conc(DoitConnectFail(t))
    \/ \E resp \in FairResponses : Conc(DoitConnect(t, resp))
    \/ Conc(DoitSendFail(t))
    \/ Conc(DoitSend(t))
    \/ Conc(RelayRead(t))
    \/ Conc(RelayEof(t))
    \/ Conc(RelayReadError(t))
    \/ Conc(RelayWriteFail(t, 0))
    \/ Conc(RelayWrite(t))
    \/ Conc(DoitStore(t))
    \/ Conc(DoitNoStore(t))
    \/ Conc(DoitStored(t))
    \/ Conc(ThreadClose(t))
    \/ Conc(InCall(StoreWrlock(t), t))
    \/ Conc(InCall(StoreSearchNext(t), t))
    \/ Conc(InCall(StoreDup(t), t))
    \/ Conc(InCall(StoreSearchEnd(t), t))
    \/ Conc(InCall(StoreEvict(t), t))
    \/ Conc(InCall(StoreInsert(t), t))
    \/ Conc(InCall(StoreFinish(t), t))
    \/ Conc(InCall(LookupRdlock(t), t))
    \/ Conc(InCall(LookupNext(t), t))
    \/ Conc(InCall(LookupMiss(t), t))
    \/ Conc(InCall(LookupFound(t), t))
    \/ Conc(InCall(LookupWriteOk(t), t))
    \/ Conc(InCall(LookupWriteFail(t, 0), t))
    \/ Conc(InCall(LookupWrlock(t), t))
    \/ Conc(InCall(LookupPromoteNext(t), t))
    \/ Conc(InCall(LookupPromote(t), t))
    \/ Conc(InCall(LookupPromoteGone(t), t))

FairNext ==
    \E t \in Threads :
        \/ \E r \in FairRequests : ConcAccept(t, r)
        \/ Conc(Stall(t))
        \/ Progress(t)

\* Handlers run concurrently; the scheduler lets every handler that can take
\* a step take one, and the lock is granted to a waiting thread once it stays
\* free.
FairSpec == Init /\ [][FairNext]_vars /\ \A t \in Threads : WF_vars(Progress(t))

\* ------------------------------------------------- claims about doit
DoitReturned(t) == doit[t].pc = "returned"
\* The bytes doit relayed from the origin to the client.
Relayed(t) == SubSeq(doit[t].sent, Len(note[t].look_sent) + 1, Len(doit[t].sent))
CacheAsBefore(t) == Entries = note[t].snap.list /\ cache_used = note[t].snap.used

\* C11 as stated: doit calls cache_store only when the relay loop ended at
\* the origin's end-of-stream (not at a failed client write, not at a failed
\* origin read), the whole response was accumulated and it has at least one
\* byte; so the payload handed to the cache is the complete origin response.
C11_StoresOnlyCompleteResponses ==
    \A t \in Threads :
        note[t].stores > 0 =>
            /\ note[t].ended = "eof"
            /\ doit[t].can_cache = 1
            /\ doit[t].total_size > 0
            /\ note[t].stored = note[t].resp

\* C12 as stated: for an origin response longer than MAX_OBJECT_SIZE every
\* chunk read is written to the client in order, cache_store is never called
\* for the request and the cache is left as it was.
C12_OversizeRelayedNotStored ==
    \A t \in Threads :
        (doit[t].server # "none" /\ Len(note[t].resp) > MAX_OBJECT_SIZE) =>
            /\ note[t].stores = 0
            /\ doit[t].pc \in {"relay_read", "relay_end", "returned"} =>
                   \E k \in 0..Len(note[t].resp) :
                       Relayed(t) = SubSeq(note[t].resp, 1, k)
            /\ (DoitReturned(t) /\ note[t].ended = "eof") =>
                   Relayed(t) = note[t].resp
            /\ (DoitReturned(t) /\ note[t].look = "miss") => CacheAsBefore(t)

\* The request before this one missed the cache, relayed a response of
\* 1..MAX_OBJECT_SIZE bytes to its end with every client write succeeding,
\* and this request asks for the same URI.
AfterCompleteRelay(t) ==
    LET p == note[t].prev IN
    /\ doit[t].uri # NoUri
    /\ p.uri = doit[t].uri
    /\ p.look = "miss"
    /\ p.ended = "eof"
    /\ Len(p.resp) \in 1..MAX_OBJECT_SIZE
    /\ p.sent = p.resp

\* C13 as stated: the request that follows a completed relay of a response of
\* 1..MAX_OBJECT_SIZE bytes, for the same URI, is a cache hit: it writes the
\* same bytes to its client and returns without connecting to an origin.
C13_RelayThenHit ==
    \A t \in Threads :
        (DoitReturned(t) /\ AfterCompleteRelay(t)) =>
            /\ note[t].look_ret = 0
            /\ doit[t].sent = note[t].prev.sent
            /\ note[t].connects = 0
            /\ doit[t].server = "none"

Rejected(t, errnum) ==
    /\ doit[t].errors = <<errnum>>
    /\ doit[t].sent = <<>>
    /\ note[t].lookups = 0 /\ note[t].stores = 0 /\ note[t].connects = 0
    /\ doit[t].server = "none"
    /\ CacheAsBefore(t)

\* C14 as stated: a request line that does not tokenize into three fields
\* gets exactly one 400 response, a request whose method is not GET gets
\* exactly one 501 response, and in both cases doit returns without a cache
\* lookup, a cache change or a connection to an origin.
C14_RejectedRequestsAsStated ==
    \A t \in Threads :
        (DoitReturned(t) /\ doit[t].req.read = 1) =>
            /\ Len(doit[t].req.tokens) < 3 => Rejected(t, "400")
            /\ (Len(doit[t].req.tokens) >= 1 /\ doit[t].req.tokens[1] # <<"G", "E", "T">>)
                   => Rejected(t, "501")

\* C14 amended: a request line of fewer than three fields gets exactly one 400
\* response; a request line of three fields or more whose method differs from
\* GET when compared without regard to case gets exactly one 501 response; in
\* both cases doit returns without a cache lookup, a cache change or a
\* connection to an origin, and no other request is rejected.
C14_RejectedRequests ==
    \A t \in Threads :
        (doit[t].pc \notin {"idle", "readline"} /\ doit[t].req.read = 1) =>
            LET tk == doit[t].req.tokens
                few == Len(tk) < 3
                other == Len(tk) >= 3 /\ ~strcasecmp0(tk[1], <<"G", "E", "T">>)
            IN  /\ few => DoitReturned(t) /\ Rejected(t, "400")
                /\ other => DoitReturned(t) /\ Rejected(t, "501")
                /\ ~(few \/ other) => doit[t].errors \in {<<>>, <<"502">>}

\* A POST request line of three fields has been answered with one 501 while
\* the cache holds entries.
C14_Witness ==
    \E t \in Threads :
        /\ DoitReturned(t)
        /\ Entries # <<>>
        /\ Len(doit[t].req.tokens) = 3
        /\ doit[t].req.tokens[1] = <<"P", "O", "S", "T">>
        /\ doit[t].errors = <<"501">>

\* C15 as stated: when the connection to the origin fails, doit writes exactly
\* one 502 response and returns, and the entries, their order and cache_used
\* are what they were before the request.
C15_ConnectFailure ==
    \A t \in Threads :
        (DoitReturned(t) /\ note[t].connects > 0 /\ doit[t].server = "none") =>
            /\ doit[t].errors = <<"502">>
            /\ note[t].connects = 1
            /\ note[t].stores = 0
            /\ CacheAsBefore(t)
\* C16: a handler blocked for ever in a socket call stops no other handler:
\* under fair scheduling every handler that has a connection returns from
\* doit, having completed its cache lookups and stores, unless it is itself
\* blocked in a socket call.
C16_StalledHandlerBlocksNoOther ==
    \A t \in Threads :
        (doit[t].pc = "readline") ~> (doit[t].pc = "returned" \/ doit[t].stalled)

\* One handler is blocked in the client write of a cache hit; another one has
\* relayed its object, has stored it, evicting the entry the first one found,
\* and has returned from doit.
C16_Witness ==
    \E t, o \in Threads :
        /\ doit[t].stalled /\ pc[t] = "lookup_write"
        /\ doit[o].pc = "returned" /\ doit[o].server = "closed"
        /\ doit[o].total_size > 0
        /\ UrisOf(Entries) = <<doit[o].uri>>
        /\ doit[o].uri # doit[t].uri

\* ------------------------------------------------------ build_requesthdrs
\* Strings are sequences of characters. MAXLINE as it bounds one header line
\* and sizes requesthdrs (csapp.h has 8192), scaled on its own: a header line
\* needs more room than one scaled read from the origin.
HDRLINE == 24
\* The header lines one client sends.
MaxHdrLines == 3

user_agent_hdr ==
    <<"U", "s", "e", "r", "-", "A", "g", "e", "n", "t", ":", " ", "M", "o",
      "z", "i", "l", "l", "a", "/", "5", ".", "0", " ", "(", "X", "1", "1",
      ";", " ", "L", "i", "n", "u", "x", " ", "x", "8", "6", "_", "6", "4",
      ";", " ", "r", "v", ":", "1", "0", ".", "0", ".", "3", ")", " ", "G",
      "e", "c", "k", "o", "/", "2", "0", "1", "2", "0", "3", "0", "5", " ",
      "F", "i", "r", "e", "f", "o", "x", "/", "1", "0", ".", "0", ".", "3",
      "\r", "\n">>
CRLF ==
    <<"\r", "\n">>

\* The pieces of the format strings of lines 353-371.
GetSp ==
    <<"G", "E", "T", " ">>
SpHttp10 ==
    <<" ", "H", "T", "T", "P", "/", "1", ".", "0", "\r", "\n">>
HostSp ==
    <<"H", "o", "s", "t", ":", " ">>
ConnectionClose ==
    <<"C", "o", "n", "n", "e", "c", "t", "i", "o", "n", ":", " ", "c", "l",
      "o", "s", "e", "\r", "\n">>
ProxyConnectionClose ==
    <<"P", "r", "o", "x", "y", "-", "C", "o", "n", "n", "e", "c", "t", "i",
      "o", "n", ":", " ", "c", "l", "o", "s", "e", "\r", "\n">>

\* The literals of the four strncasecmp calls, lines 377-380.
HostPrefix ==
    <<"H", "o", "s", "t", ":">>
UserAgentPrefix ==
    <<"U", "s", "e", "r", "-", "A", "g", "e", "n", "t", ":">>
ConnectionPrefix ==
    <<"C", "o", "n", "n", "e", "c", "t", "i", "o", "n", ":">>
ProxyConnectionPrefix ==
    <<"P", "r", "o", "x", "y", "-", "C", "o", "n", "n", "e", "c", "t", "i",
      "o", "n", ":">>

RECURSIVE Flatten(_)
Flatten(ss) == IF ss = <<>> THEN <<>> ELSE Head(ss) \o Flatten(Tail(ss))

\* strchr(s, c): the position of the first c in s, 0 for a null pointer.
strchr(s, c) ==
    IF \E i \in 1..Len(s) : s[i] = c
    THEN Min({i \in 1..Len(s) : s[i] = c})
    ELSE 0

\* sprintf "%d"
DigitChars == <<"0", "1", "2", "3", "4", "5", "6", "7", "8", "9">>
RECURSIVE itoa(_)
itoa(n) ==
    IF n < 0 THEN <<"-">> \o itoa(0 - n)
    ELSE IF n < 10 THEN <<DigitChars[n + 1]>>
    ELSE itoa(n \div 10) \o <<DigitChars[(n % 10) + 1]>>

\* char requesthdrs[MAXLINE * 8] in doit, the array out_hdr points to.
RequestHdrsSize == HDRLINE * 8

\* strcat(out_hdr, s) stays inside the array: the characters and the
\* terminating null byte.
StrcatFits(out, s) == Len(out) + Len(s) + 1 <= RequestHdrsSize

\* The Host header of lines 355-363.
HostHdr(hostname, port) ==
    IF strchr(hostname, ":") = 0 /\ port # 80
    THEN HostSp \o hostname \o <<":">> \o itoa(port) \o CRLF
    ELSE HostSp \o hostname \o CRLF

\* Rio_readlineb(client_rio, buf, MAXLINE): the number of characters of the
\* next line, which ends with its newline or after MAXLINE - 1 characters or
\* where the stream ends.
ReadLineLen(stream) ==
    LET nl == strchr(stream, "\n")
        lim == Min({Len(stream), HDRLINE - 1})
    IN  IF nl # 0 /\ nl <= lim THEN nl ELSE lim

\* The header lines clients send: replaced headers in several spellings, a
\* header whose name only begins like a replaced one, other headers, and a
\* line as long as one read takes.
ClientLines ==
    {<<"H", "o", "s", "t", ":", " ", "a", "\r", "\n">>,
     <<"h", "O", "s", "T", ":", " ", "b", "\r", "\n">>,
     <<"H", "o", "s", "t", "n", "a", "m", "e", ":", " ", "c", "\r", "\n">>,
     <<"U", "s", "e", "r", "-", "A", "g", "e", "n", "t", ":", " ", "u", "\r",
      "\n">>,
     <<"C", "O", "N", "N", "E", "C", "T", "I", "O", "N", ":", " ", "k", "\r",
      "\n">>,
     <<"p", "r", "o", "x", "y", "-", "c", "o", "n", "n", "e", "c", "t", "i",
      "o", "n", ":", " ", "p", "\r", "\n">>,
     <<"A", "c", "c", "e", "p", "t", ":", " ", "x", "\r", "\n">>,
     <<"X", "-", "P", "a", "d", ":", " ", "z", "z", "z", "z", "z", "z", "z",
      "z", "z", "z", "z", "z", "z", "z", "\r", "\n">>}

HdrTargets ==
    {[hostname |-> <<"h">>, path |-> <<"/">>, port |-> 80],
     [hostname |-> <<"h">>, path |-> <<"/", "a">>, port |-> 8080]}

\* The calls of build_requesthdrs: its arguments and what the client sends
\* after the request line, with or without the empty line that ends the
\* headers.
HdrCalls ==
    {[NoHdr EXCEPT !.pc = "start", !.hostname = g.hostname, !.path = g.path,
                   !.port = g.port, !.lines = ls, !.terminated = b,
                   !.stream = Flatten(ls) \o (IF b THEN CRLF ELSE <<>>)] :
        g \in HdrTargets,
        ls \in UNION {[1..n -> ClientLines] : n \in 0..MaxHdrLines},
        b \in BOOLEAN}

HdrInit ==
    /\ ProxyInit
    /\ hdr \in HdrCalls
    /\ pu = NoParse
    /\ TsInit
    /\ SemInit
    /\ rq = NoRq

\* Lines 353-371: the request line, Host, User-Agent, Connection and
\* Proxy-Connection.
HdrPreamble ==
    /\ hdr.pc = "start"
    /\ hdr' = [hdr EXCEPT !.pc = "loop",
                          !.out_hdr = GetSp \o hdr.path \o SpHttp10
                                      \o HostHdr(hdr.hostname, hdr.port)
                                      \o user_agent_hdr
                                      \o ConnectionClose \o ProxyConnectionClose]

\* Line 374: Rio_readlineb returns a line.
HdrReadLine ==
    /\ hdr.pc = "loop"
    /\ Len(hdr.stream) > 0
    /\ LET n == ReadLineLen(hdr.stream)
       IN  hdr' = [hdr EXCEPT !.pc = "line",
                             !.buf = SubSeq(hdr.stream, 1, n),
                             !.stream = SubSeq(hdr.stream, n + 1, Len(hdr.stream))]

\* Line 374: Rio_readlineb returns 0, the client sent nothing more.
HdrReadEof ==
    /\ hdr.pc = "loop"
    /\ Len(hdr.stream) = 0
    /\ hdr' = [hdr EXCEPT !.pc = "end"]

\* Line 375: the empty line ends the headers.
HdrEmptyLine ==
    /\ hdr.pc = "line"
    /\ hdr.buf = CRLF
    /\ hdr' = [hdr EXCEPT !.pc = "end"]

\* Lines 377-380: one of the four strncasecmp calls returns 0.
Replaced(buf) ==
    \/ strncasecmp0(buf, HostPrefix, 5)
    \/ strncasecmp0(buf, UserAgentPrefix, 11)
    \/ strncasecmp0(buf, ConnectionPrefix, 11)
    \/ strncasecmp0(buf, ProxyConnectionPrefix, 17)

HdrSkip ==
    /\ hdr.pc = "line"
    /\ hdr.buf # CRLF
    /\ Replaced(hdr.buf)
    /\ hdr' = [hdr EXCEPT !.pc = "loop"]

\* Line 381: strcat(out_hdr, buf), the line fits.
HdrCopy ==
    /\ hdr.pc = "line"
    /\ hdr.buf # CRLF
    /\ ~Replaced(hdr.buf)
    /\ StrcatFits(hdr.out_hdr, hdr.buf)
    /\ hdr' = [hdr EXCEPT !.pc = "loop", !.out_hdr = @ \o hdr.buf]

\* Line 381: strcat writes past the end of requesthdrs, on the stack of
\* doit. The behaviour is undefined: the bytes may land where nothing reads
\* them before doit sends the request, or the process is ended.
HdrCopyPast ==
    /\ hdr.pc = "line"
    /\ hdr.buf # CRLF
    /\ ~Replaced(hdr.buf)
    /\ ~StrcatFits(hdr.out_hdr, hdr.buf)
    /\ \/ hdr' = [hdr EXCEPT !.pc = "loop", !.out_hdr = @ \o hdr.buf]
       \/ hdr' = [hdr EXCEPT !.pc = "aborted"]

\* Line 383: the empty line that ends the request.
HdrEnd ==
    /\ hdr.pc = "end"
    /\ StrcatFits(hdr.out_hdr, CRLF)
    /\ hdr' = [hdr EXCEPT !.pc = "done", !.out_hdr = @ \o CRLF]

\* Line 383, past the end of requesthdrs.
HdrEndPast ==
    /\ hdr.pc = "end"
    /\ ~StrcatFits(hdr.out_hdr, CRLF)
    /\ \/ hdr' = [hdr EXCEPT !.pc = "done", !.out_hdr = @ \o CRLF]
       \/ hdr' = [hdr EXCEPT !.pc = "aborted"]

\* Only build_requesthdrs runs.
Hdr(A) == A /\ UNCHANGED <<proxyvars, pu, tsvars, semvars, rq>>

HdrNext ==
    \/ Hdr(HdrPreamble)
    \/ Hdr(HdrReadLine)
    \/ Hdr(HdrReadEof)
    \/ Hdr(HdrEmptyLine)
    \/ Hdr(HdrSkip)
    \/ Hdr(HdrCopy)
    \/ Hdr(HdrCopyPast)
    \/ Hdr(HdrEnd)
    \/ Hdr(HdrEndPast)

HdrSpec == HdrInit /\ [][HdrNext]_vars

\* The handler thread that runs build_requesthdrs is scheduled while it has a
\* step to take.
FairHdrSpec == HdrInit /\ [][HdrNext]_vars /\ WF_vars(HdrNext)

\* ------------------------------------------- claims about build_requesthdrs
\* The name of a header line: what stands before its colon, in lower case.
HeaderName(line) ==
    LET name == SubSeq(line, 1, strchr(line, ":") - 1)
    IN  [i \in 1..Len(name) |-> tolower(name[i])]

ReplacedNames ==
    {<<"h", "o", "s", "t">>,
     <<"u", "s", "e", "r", "-", "a", "g", "e", "n", "t">>,
     <<"c", "o", "n", "n", "e", "c", "t", "i", "o", "n">>,
     <<"p", "r", "o", "x", "y", "-", "c", "o", "n", "n", "e", "c", "t", "i", "o", "n">>}

PassedThrough(line) == HeaderName(line) \notin ReplacedNames

\* The request the wire protocol asks for.
ExpectedRequest ==
    GetSp \o hdr.path \o SpHttp10
    \o HostHdr(hdr.hostname, hdr.port)
    \o user_agent_hdr \o ConnectionClose \o ProxyConnectionClose
    \o Flatten(SelectSeq(hdr.lines, PassedThrough))
    \o CRLF

\* C17: for every sequence of client header lines build_requesthdrs returns
\* the request line, one Host, the fixed User-Agent, Connection: close and
\* Proxy-Connection: close in that order, then the client's lines whose name is
\* none of these four, unchanged and in order, then one empty line.
C17_RequestHeaders ==
    hdr.pc \in {"done", "aborted"} =>
        hdr.pc = "done" /\ hdr.out_hdr = ExpectedRequest

\* The same whenever every strcat stayed inside requesthdrs.
C17_WithinRequestHdrs ==
    (hdr.pc = "done" /\ Len(hdr.out_hdr) + 1 <= RequestHdrsSize) =>
        hdr.out_hdr = ExpectedRequest

\* ---------------------------------------------------------------- parse_uri
\* The literal of the strncasecmp call, line 318.
HttpPrefix == <<"h", "t", "t", "p", ":", "/", "/">>

\* isdigit, and the value of a digit.
IsDigit(c) == \E d \in 0..9 : DigitChars[d + 1] = c
DigitVal(c) == CHOOSE d \in 0..9 : DigitChars[d + 1] = c

\* atoi: leading white space is skipped, one sign is taken, then digits are
\* read up to the first character that is none; no digit gives 0.
RECURSIVE atoiDigits(_, _)
atoiDigits(s, acc) ==
    IF s = <<>> \/ ~IsDigit(Head(s)) THEN acc
    ELSE atoiDigits(Tail(s), acc * 10 + DigitVal(Head(s)))

RECURSIVE SkipSpace(_)
SkipSpace(s) == IF s # <<>> /\ Head(s) = " " THEN SkipSpace(Tail(s)) ELSE s

atoi(s) ==
    LET t == SkipSpace(s)
    IN  IF t = <<>> THEN 0
        ELSE IF Head(t) = "-" THEN 0 - atoiDigits(Tail(t), 0)
        ELSE IF Head(t) = "+" THEN atoiDigits(Tail(t), 0)
        ELSE atoiDigits(t, 0)

\* The strings parse_uri is called with: with and without the scheme in
\* several spellings, with and without a host, a port text and a path.
UriSchemes == {<<>>, <<"h", "t", "t", "p", ":", "/", "/">>, <<"H", "T", "T", "P", ":", "/", "/">>, <<"h", "T", "t", "p", ":", "/", "/">>}
UriHosts == {<<>>, <<"h">>, <<"e", "x">>}
\* The text after the colon; NoPort stands for an authority without colon.
NoPort == <<"none">>
UriPorts ==
    {NoPort, <<>>,
     <<"0">>,
     <<"8">>,
     <<"8", "0">>,
     <<"8", "0", "8", "0">>,
     <<"8", "x">>,
     <<"x", "8">>,
     <<"-", "5">>,
     <<"+", "8">>,
     <<"8", ":", "9">>}
UriPaths == {<<"/">>, <<"/", "a", "/", "b">>, <<"/", "a", ":", "9">>}
UriInputs ==
    {s \o h \o (IF p = NoPort THEN <<>> ELSE <<":">> \o p) \o q :
        s \in UriSchemes, h \in UriHosts, p \in UriPorts, q \in UriPaths \cup {<<>>}}

UriInit ==
    /\ ProxyInit
    /\ hdr = NoHdr
    /\ pu \in {[NoParse EXCEPT !.pc = "start", !.uri = u] : u \in UriInputs}
    /\ TsInit
    /\ SemInit
    /\ rq = NoRq

\* Lines 311-322: the default port, and hostbegin past a leading "http://".
PuScheme ==
    /\ pu.pc = "start"
    /\ pu' = [pu EXCEPT !.pc = "path", !.port = 80,
                        !.hostbegin = IF strncasecmp0(pu.uri, HttpPrefix, 7)
                                      THEN 8 ELSE 1]

\* Lines 324-327: the first '/' from hostbegin on starts the path.
PuPath ==
    /\ pu.pc = "path"
    /\ LET rest == SubSeq(pu.uri, pu.hostbegin, Len(pu.uri))
           pathbegin == strchr(rest, "/")
       IN  /\ pathbegin # 0
           /\ pu' = [pu EXCEPT !.pc = "port",
                               !.hostbuf = SubSeq(rest, 1, pathbegin - 1),
                               !.path = SubSeq(rest, pathbegin, Len(rest))]

\* Lines 328-331: no '/', the path is "/".
PuNoPath ==
    /\ pu.pc = "path"
    /\ LET rest == SubSeq(pu.uri, pu.hostbegin, Len(pu.uri))
       IN  /\ strchr(rest, "/") = 0
           /\ pu' = [pu EXCEPT !.pc = "port", !.hostbuf = rest, !.path = <<"/">>]

\* Faulty variant: a port of 0 is kept.
PuPortKeepsZero ==
    /\ pu.pc = "port"
    /\ LET portptr == strchr(pu.hostbuf, ":")
       IN  /\ portptr # 0
           /\ pu' = [pu EXCEPT !.pc = "done",
                               !.hostname = SubSeq(pu.hostbuf, 1, portptr - 1),
                               !.port = atoi(SubSeq(pu.hostbuf, portptr + 1,
                                                    Len(pu.hostbuf)))]

\* Lines 334-341: the first ':' of hostbuf ends the host name, atoi reads the
\* port after it, and a port of 0 becomes 80.
PuPort ==
    /\ pu.pc = "port"
    /\ LET portptr == strchr(pu.hostbuf, ":")
           port == atoi(SubSeq(pu.hostbuf, portptr + 1, Len(pu.hostbuf)))
       IN  /\ portptr # 0
           /\ pu' = [pu EXCEPT !.pc = "done",
                               !.hostname = SubSeq(pu.hostbuf, 1, portptr - 1),
                               !.port = IF port = 0 THEN 80 ELSE port]

\* Lines 342-344: no ':', hostbuf is the host name.
PuNoPort ==
    /\ pu.pc = "port"
    /\ strchr(pu.hostbuf, ":") = 0
    /\ pu' = [pu EXCEPT !.pc = "done", !.hostname = pu.hostbuf]

\* Only parse_uri runs.
Pu(A) == A /\ UNCHANGED <<proxyvars, hdr, tsvars, semvars, rq>>

UriNext ==
    \/ Pu(PuScheme)
    \/ Pu(PuPath)
    \/ Pu(PuNoPath)
    \/ Pu(PuPort)
    \/ Pu(PuNoPort)

UriSpec == UriInit /\ [][UriNext]_vars

\* ---------------------------------------------------- claims about parse_uri
\* The input without a leading "http://" in any spelling.
Unschemed(uri) ==
    IF Len(uri) >= 7 /\ [i \in 1..7 |-> tolower(uri[i])] = HttpPrefix
    THEN SubSeq(uri, 8, Len(uri))
    ELSE uri

\* What stands before the first '/', and the rest.
Authority(uri) ==
    LET r == Unschemed(uri)
    IN  IF \E i \in 1..Len(r) : r[i] = "/"
        THEN SubSeq(r, 1, (CHOOSE i \in 1..Len(r) :
                              r[i] = "/" /\ \A j \in 1..(i - 1) : r[j] # "/") - 1)
        ELSE r
StatedPath(uri) ==
    LET r == Unschemed(uri)
        a == Authority(uri)
    IN  IF Len(a) = Len(r) THEN <<"/">> ELSE SubSeq(r, Len(a) + 1, Len(r))

HasPort(uri) == \E i \in 1..Len(Authority(uri)) : Authority(uri)[i] = ":"
FirstColon(a) == CHOOSE i \in 1..Len(a) : a[i] = ":" /\ \A j \in 1..(i - 1) : a[j] # ":"
StatedHost(uri) ==
    LET a == Authority(uri)
    IN  IF HasPort(uri) THEN SubSeq(a, 1, FirstColon(a) - 1) ELSE a
PortText(uri) ==
    LET a == Authority(uri)
    IN  SubSeq(a, FirstColon(a) + 1, Len(a))

\* The value of a string of decimal digits.
RECURSIVE Decimal(_)
Decimal(ds) ==
    IF ds = <<>> THEN 0
    ELSE 10 * Decimal(SubSeq(ds, 1, Len(ds) - 1)) + DigitVal(ds[Len(ds)])

Numeric(text) == text # <<>> /\ \A i \in 1..Len(text) : IsDigit(text[i])

\* The port as stated: 80 when the port is absent, zero or not numeric.
StatedPort(uri) ==
    IF ~HasPort(uri) \/ ~Numeric(PortText(uri)) \/ Decimal(PortText(uri)) = 0
    THEN 80
    ELSE Decimal(PortText(uri))

\* The leading number of a port text: after white space and one sign, the
\* longest run of digits, whatever follows it; 0 when there is no digit there.
LeadingNumber(text) ==
    LET sp == CHOOSE k \in 0..Len(text) :
                  /\ \A i \in 1..k : text[i] = " "
                  /\ (k < Len(text) => text[k + 1] # " ")
        signed == sp < Len(text) /\ text[sp + 1] \in {"-", "+"}
        from == IF signed THEN sp + 2 ELSE sp + 1
        to == CHOOSE k \in (from - 1)..Len(text) :
                  /\ \A i \in from..k : IsDigit(text[i])
                  /\ (k < Len(text) => ~IsDigit(text[k + 1]))
        value == Decimal(SubSeq(text, from, to))
    IN  IF signed /\ text[sp + 1] = "-" THEN 0 - value ELSE value

AmendedPort(uri) ==
    IF ~HasPort(uri) \/ LeadingNumber(PortText(uri)) = 0
    THEN 80
    ELSE LeadingNumber(PortText(uri))

\* C18 as stated: parse_uri strips a leading "http://" in any spelling, takes
\* everything from the first '/' as the path ("/" when there is none), splits
\* the authority at its first ':' and yields port 80 when the port is absent,
\* zero or not numeric.
C18_ParseUriAsStated ==
    pu.pc = "done" =>
        /\ pu.hostname = StatedHost(pu.uri)
        /\ pu.path = StatedPath(pu.uri)
        /\ pu.port = StatedPort(pu.uri)

\* C18, amended: host and path as stated; the port is the leading number of
\* the text after the first ':' (after white space and one sign, its longest
\* run of digits, whatever follows), and 80 when there is no ':' or that
\* number is 0; parse_uri has a next step until it returns.
C18_ParseUri ==
    /\ pu.pc \in {"start", "path", "port"} => ENABLED UriNext
    /\ pu.pc = "done" =>
          /\ pu.hostname = StatedHost(pu.uri)
          /\ pu.path = StatedPath(pu.uri)
          /\ pu.port = AmendedPort(pu.uri)

\* parse_uri has returned for a port text that begins with a digit and is
\* not numeric.
C18_Witness ==
    /\ pu.pc = "done"
    /\ HasPort(pu.uri)
    /\ PortText(pu.uri) = <<"8", "x">>
    /\ pu.port = 8
    /\ pu.path = <<"/", "a", "/", "b">>

\* ----------------------------------------- part_000: the timestamp-slot cache
\* The other variant of the proxy (src/unnamed/part_000): cache[CACHE_CNT],
\* every slot with a timestamp, one mutex cache_lock around cache_read and
\* around cache_write, and global_time counting the cache calls.

\* global_time only grows; main accepts connections until it has reached
\* MaxTime.
MaxTime == 5

Slots == 1..CACHE_CNT

\* The requests clients send: nothing, another method, GET for a URI.
TsRequests ==
    {NoRequest,
     [read |-> 1, tokens |-> <<<<"P", "O", "S", "T">>, "A", "HTTP/1.0">>]}
    \cup {[read |-> 1, tokens |-> <<<<"G", "E", "T">>, u, "HTTP/1.0">>] : u \in URIS}

\* What an origin sends before it closes: nothing, one byte, or 0 ... 0 1 of
\* up to MAX_OBJECT_SIZE + 1 bytes.
TsResponses ==
    {<<>>} \cup {<<v>> : v \in Bytes}
    \cup {[i \in 1..n |-> IF i = n THEN 1 ELSE 0] : n \in 2..(MAX_OBJECT_SIZE + 1)}

TsAt(t, where) == ts[t].pc = where
TsSet(t, f) == ts' = [ts EXCEPT ![t] = f]

\* main (lines 60-65): Accept returns and a thread runs doit on the connection.
TsAccept(t, r) ==
    /\ TsAt(t, "idle")
    /\ global_time < MaxTime
    /\ TsSet(t, [NoTsFrame EXCEPT !.pc = "readline", !.req = r])
    /\ UNCHANGED <<cache, cache_lock, global_time>>

\* Line 87: Rio_readlineb returns 0.
TsNoRequest(t) ==
    /\ TsAt(t, "readline")
    /\ ts[t].req.read = 0
    /\ TsSet(t, [ts[t] EXCEPT !.pc = "returned"])
    /\ UNCHANGED <<cache, cache_lock, global_time>>

\* Lines 89-93: the method is not GET in any spelling, 501.
TsNotImplemented(t) ==
    /\ TsAt(t, "readline")
    /\ ts[t].req.read # 0
    /\ ~strcasecmp0(ts[t].req.tokens[1], <<"G", "E", "T">>)
    /\ TsSet(t, [ts[t] EXCEPT !.pc = "returned", !.errors = @ \o <<"501">>])
    /\ UNCHANGED <<cache, cache_lock, global_time>>

\* Lines 89-96: a GET, doit calls cache_read(uri, fd).
TsRequest(t) ==
    /\ TsAt(t, "readline")
    /\ ts[t].req.read # 0
    /\ strcasecmp0(ts[t].req.tokens[1], <<"G", "E", "T">>)
    /\ TsSet(t, [ts[t] EXCEPT !.pc = "cache_read", !.uri = ts[t].req.tokens[2]])
    /\ UNCHANGED <<cache, cache_lock, global_time>>

\* cache_read, lines 211-212: the mutex is taken and global_time counted.
CacheReadLock(t) ==
    /\ TsAt(t, "cache_read")
    /\ cache_lock = NULL
    /\ cache_lock' = t
    /\ global_time' = global_time + 1
    /\ TsSet(t, [ts[t] EXCEPT !.pc = "read_scan"])
    /\ UNCHANGED cache

\* The slots the loop of lines 213-214 stops at.
Matching(uri) == {i \in Slots : cache[i].size > 0 /\ cache[i].uri = uri}

\* Lines 213-214: the first occupied slot with the uri.
CacheReadFound(t) ==
    /\ TsAt(t, "read_scan")
    /\ Matching(ts[t].uri) # {}
    /\ TsSet(t, [ts[t] EXCEPT !.pc = "read_write", !.i = Min(Matching(ts[t].uri))])
    /\ UNCHANGED <<cache, cache_lock, global_time>>

\* Lines 215-218 and 96: the object is written to the client, the slot gets
\* the time, the mutex is released and doit returns.
CacheReadHit(t) ==
    /\ TsAt(t, "read_write")
    /\ cache_lock = t
    /\ cache' = [cache EXCEPT ![ts[t].i].timestamp = global_time]
    /\ cache_lock' = NULL
    /\ TsSet(t, [ts[t] EXCEPT !.pc = "returned", !.hit = 1,
                              !.sent = @ \o cache[ts[t].i].obj])
    /\ UNCHANGED global_time

\* Lines 220-222 and 96-102: no slot has the uri, cache_read returns 0 and
\* doit goes on to the origin.
CacheReadMiss(t) ==
    /\ TsAt(t, "read_scan")
    /\ cache_lock = t
    /\ Matching(ts[t].uri) = {}
    /\ cache_lock' = NULL
    /\ TsSet(t, [ts[t] EXCEPT !.pc = "connect"])
    /\ UNCHANGED <<cache, global_time>>

\* Lines 105-109: Open_clientfd fails, 502.
TsConnectFail(t) ==
    /\ TsAt(t, "connect")
    /\ TsSet(t, [ts[t] EXCEPT !.pc = "returned", !.errors = @ \o <<"502">>])
    /\ UNCHANGED <<cache, cache_lock, global_time>>

\* Lines 105-115: the origin is reached and sent the request; resp is what it
\* will answer.
TsConnect(t, resp) ==
    /\ TsAt(t, "connect")
    /\ TsSet(t, [ts[t] EXCEPT !.pc = "relay_read", !.origin = resp, !.resp = resp])
    /\ UNCHANGED <<cache, cache_lock, global_time>>

\* Line 117: Rio_readnb returns the next n > 0 bytes, MAXLINE of them unless
\* the response ends before.
TsRelayRead(t) ==
    /\ TsAt(t, "relay_read")
    /\ Len(ts[t].origin) > 0
    /\ LET n == Min({MAXLINE, Len(ts[t].origin)})
       IN  TsSet(t, [ts[t] EXCEPT !.pc = "relay_write",
                                 !.buf = SubSeq(ts[t].origin, 1, n),
                                 !.origin = SubSeq(ts[t].origin, n + 1,
                                                   Len(ts[t].origin))])
    /\ UNCHANGED <<cache, cache_lock, global_time>>

\* Lines 119-122: the chunk is appended when total_size + n < MAX_OBJECT_SIZE
\* and left out otherwise.
TsAccumulate(f) ==
    IF f.total_size + Len(f.buf) < MAX_OBJECT_SIZE
    THEN [f EXCEPT !.obj_buf = @ \o f.buf, !.total_size = @ + Len(f.buf)]
    ELSE f

\* Lines 118-122: the chunk goes to the client and, if it fits, to obj_buf.
TsRelayWrite(t) ==
    /\ TsAt(t, "relay_write")
    /\ TsSet(t, [TsAccumulate(ts[t]) EXCEPT !.pc = "relay_read",
                                            !.sent = @ \o ts[t].buf])
    /\ UNCHANGED <<cache, cache_lock, global_time>>

\* Line 117: Rio_readnb returns 0, the origin has closed.
TsRelayEof(t) ==
    /\ TsAt(t, "relay_read")
    /\ Len(ts[t].origin) = 0
    /\ TsSet(t, [ts[t] EXCEPT !.pc = "relay_end"])
    /\ UNCHANGED <<cache, cache_lock, global_time>>

\* Line 124: total_size > 0, doit calls cache_write(uri, obj_buf, total_size),
\* which returns at once for a size above MAX_OBJECT_SIZE (line 227).
TsStore(t) ==
    /\ TsAt(t, "relay_end")
    /\ ts[t].total_size > 0
    /\ TsSet(t, [ts[t] EXCEPT !.pc = IF ts[t].total_size > MAX_OBJECT_SIZE
                                     THEN "returned" ELSE "cache_write"])
    /\ UNCHANGED <<cache, cache_lock, global_time>>

\* Lines 124-126: nothing was accumulated, the origin is closed.
TsNoStore(t) ==
    /\ TsAt(t, "relay_end")
    /\ ts[t].total_size = 0
    /\ TsSet(t, [ts[t] EXCEPT !.pc = "returned"])
    /\ UNCHANGED <<cache, cache_lock, global_time>>

\* cache_write, lines 229-230: the mutex is taken and global_time counted.
CacheWriteLock(t) ==
    /\ TsAt(t, "cache_write")
    /\ cache_lock = NULL
    /\ cache_lock' = t
    /\ global_time' = global_time + 1
    /\ TsSet(t, [ts[t] EXCEPT !.pc = "write_pick"])
    /\ UNCHANGED cache

\* Faulty variant: with no empty slot the comparison of line 246 is turned
\* round and the slot with the largest timestamp is picked.
VictimNewest ==
    IF \E i \in Slots : cache[i].size = 0
    THEN Min({i \in Slots : cache[i].size = 0})
    ELSE Min({i \in Slots : \A j \in Slots : cache[i].timestamp >= cache[j].timestamp})

\* Lines 233-250: the first empty slot, or else the first slot with the
\* smallest timestamp.
Victim ==
    IF \E i \in Slots : cache[i].size = 0
    THEN Min({i \in Slots : cache[i].size = 0})
    ELSE Min({i \in Slots : \A j \in Slots : cache[i].timestamp <= cache[j].timestamp})

CacheWritePick(t) ==
    /\ TsAt(t, "write_pick")
    /\ TsSet(t, [ts[t] EXCEPT !.pc = "write_fill", !.victim = Victim])
    /\ UNCHANGED <<cache, cache_lock, global_time>>

\* Lines 252-257 and 126: the slot is overwritten, the mutex released and the
\* origin closed.
CacheWriteFill(t) ==
    /\ TsAt(t, "write_fill")
    /\ cache_lock = t
    /\ cache' = [cache EXCEPT ![ts[t].victim] =
                     [uri |-> ts[t].uri, obj |-> ts[t].obj_buf,
                      size |-> ts[t].total_size, timestamp |-> global_time]]
    /\ cache_lock' = NULL
    /\ TsSet(t, [ts[t] EXCEPT !.pc = "returned", !.wrote = 1])
    /\ UNCHANGED global_time

\* thread (lines 73-75): doit has returned, the connection is closed.
TsClose(t) ==
    /\ TsAt(t, "returned")
    /\ TsSet(t, NoTsFrame)
    /\ UNCHANGED <<cache, cache_lock, global_time>>

\* A hit or a write touches one slot: it becomes the newest.
Newest(i) == <<i>> \o SelectSeq(touched, LAMBDA j : j # i)
Touch ==
    touched' =
        IF \E t \in Threads : ts[t].pc = "read_write" /\ ts'[t].pc = "returned"
        THEN Newest(ts[CHOOSE t \in Threads :
                          ts[t].pc = "read_write" /\ ts'[t].pc = "returned"].i)
        ELSE IF \E t \in Threads : ts[t].pc = "write_fill" /\ ts'[t].pc = "returned"
        THEN Newest(ts[CHOOSE t \in Threads :
                          ts[t].pc = "write_fill" /\ ts'[t].pc = "returned"].victim)
        ELSE touched

\* Only the handlers of part_000 run.
Ts(A) == A /\ Touch /\ UNCHANGED <<proxyvars, hdr, pu, semvars, rq>>

TsNext ==
    \E t \in Threads :
        \/ \E r \in TsRequests : Ts(TsAccept(t, r))
        \/ Ts(TsNoRequest(t))
        \/ Ts(TsNotImplemented(t))
        \/ Ts(TsRequest(t))
        \/ Ts(CacheReadLock(t))
        \/ Ts(CacheReadFound(t))
        \/ Ts(CacheReadHit(t))
        \/ Ts(CacheReadMiss(t))
        \/ Ts(TsConnectFail(t))
        \/ \E resp \in TsResponses : Ts(TsConnect(t, resp))
        \/ Ts(TsRelayRead(t))
        \/ Ts(TsRelayWrite(t))
        \/ Ts(TsRelayEof(t))
        \/ Ts(TsStore(t))
        \/ Ts(TsNoStore(t))
        \/ Ts(CacheWriteLock(t))
        \/ Ts(CacheWritePick(t))
        \/ Ts(CacheWriteFill(t))
        \/ Ts(TsClose(t))

TsSpec == Init /\ [][TsNext]_vars

\* ------------------------------------------------- claims about part_000
\* C19: under any interleaving of handlers at most one occupied slot holds
\* any given URI.
C19_OneSlotPerUri ==
    \A i, j \in Slots :
        (i # j /\ cache[i].size > 0 /\ cache[j].size > 0) => cache[i].uri # cache[j].uri

\* C20: a response of MAX_OBJECT_SIZE bytes or more is relayed in full and
\* never cached: cache_write is called only with the complete byte sequence
\* relayed to the client for the request.
C20_CachesOnlyWhatWasRelayed ==
    \A t \in Threads :
        ts[t].pc \in {"cache_write", "write_pick", "write_fill"} =>
            /\ ts[t].sent = ts[t].resp
            /\ Len(ts[t].resp) < MAX_OBJECT_SIZE
            /\ ts[t].obj_buf = ts[t].sent

\* C21: cache_read does not hold cache_lock while it writes the payload to the
\* client, so a handler in that write keeps no other handler from entering
\* cache_read or cache_write.
C21_ClientWriteOutsideLock ==
    \A t \in Threads : \A o \in Threads \ {t} :
        (ts[t].pc = "read_write" /\ ts[o].pc \in {"cache_read", "cache_write"})
            => /\ cache_lock # t
               /\ ENABLED (CacheReadLock(o) \/ CacheWriteLock(o))

\* -------------------------------------- part_001: the semaphore list cache
\* The third variant (src/unnamed/part_001, from line 164): a doubly-linked
\* list of cache_block structures in the struct cache, its head the newest
\* insertion, and one semaphore cache.mutex around cache_find and around
\* cache_insert.

\* The URIs its clients ask for: one more than objects fill the cache.
SemURIS == URIS \cup {"D"}

SemRequests ==
    {NoRequest,
     [read |-> 1, tokens |-> <<<<"P", "O", "S", "T">>, "A", "HTTP/1.0">>]}
    \cup {[read |-> 1, tokens |-> <<<<"G", "E", "T">>, u, "HTTP/1.0">>] : u \in SemURIS}

\* Block addresses from cache.head following next.
SemChain == WalkFrom(heap, cache_list.head, Cardinality(SemBlocks) + 1)
\* The cache as the list of its entries, head first.
SemEntries ==
    [i \in 1..Len(SemChain) |->
        [url |-> heap[SemChain[i]].url, data |-> heap[SemChain[i]].data,
         size |-> heap[SemChain[i]].size]]
SemUrls == [i \in 1..Len(SemEntries) |-> SemEntries[i].url]

SemAt(t, where) == sdoit[t].pc = where
SemSet(t, f) == sdoit' = [sdoit EXCEPT ![t] = f]

\* main (lines 222-227) and thread: Accept returns and a thread runs doit.
SemAccept(t, r) ==
    /\ SemAt(t, "idle")
    /\ accepted < MaxSemRequests
    /\ accepted' = accepted + 1
    /\ SemSet(t, [NoSemFrame EXCEPT !.pc = "readline", !.req = r])
    /\ UNCHANGED <<cache_list, heap>>

\* Lines 251-252: Rio_readlineb returns 0.
SemNoRequest(t) ==
    /\ SemAt(t, "readline")
    /\ sdoit[t].req.read = 0
    /\ SemSet(t, [sdoit[t] EXCEPT !.pc = "returned"])
    /\ UNCHANGED <<cache_list, heap, accepted>>

\* Lines 254-259: the method is not GET; a line is printed and doit returns.
SemNotGet(t) ==
    /\ SemAt(t, "readline")
    /\ sdoit[t].req.read # 0
    /\ ~strcasecmp0(sdoit[t].req.tokens[1], <<"G", "E", "T">>)
    /\ SemSet(t, [sdoit[t] EXCEPT !.pc = "returned"])
    /\ UNCHANGED <<cache_list, heap, accepted>>

\* Lines 254-261: a GET, doit calls cache_find(uri, connfd).
SemRequest(t) ==
    /\ SemAt(t, "readline")
    /\ sdoit[t].req.read # 0
    /\ strcasecmp0(sdoit[t].req.tokens[1], <<"G", "E", "T">>)
    /\ SemSet(t, [sdoit[t] EXCEPT !.pc = "cache_find", !.uri = sdoit[t].req.tokens[2]])
    /\ UNCHANGED <<cache_list, heap, accepted>>

\* cache_find, lines 351-352: P(&cache.mutex), p = cache.head.
CacheFindP(t) ==
    /\ SemAt(t, "cache_find")
    /\ cache_list.mutex = NULL
    /\ cache_list' = [cache_list EXCEPT !.mutex = t]
    /\ SemSet(t, [sdoit[t] EXCEPT !.pc = "find_loop", !.p = cache_list.head])
    /\ UNCHANGED <<heap, accepted>>

\* Lines 353-359: another url, p = p->next.
CacheFindNext(t) ==
    /\ SemAt(t, "find_loop")
    /\ sdoit[t].p # NULL
    /\ heap[sdoit[t].p].url # sdoit[t].uri
    /\ SemSet(t, [sdoit[t] EXCEPT !.p = heap[sdoit[t].p].next])
    /\ UNCHANGED <<cache_list, heap, accepted>>

\* Lines 354-357 and 261-262: the url is found, its data written to the
\* client, V(&cache.mutex), and doit returns. Nothing in the list changes.
CacheFindHit(t) ==
    /\ SemAt(t, "find_loop")
    /\ sdoit[t].p # NULL
    /\ heap[sdoit[t].p].url = sdoit[t].uri
    /\ cache_list' = [cache_list EXCEPT !.mutex = NULL]
    /\ SemSet(t, [sdoit[t] EXCEPT !.pc = "returned", !.hit = 1,
                                 !.sent = @ \o heap[sdoit[t].p].data])
    /\ UNCHANGED <<heap, accepted>>

\* Lines 353, 361-362: the end of the list, V(&cache.mutex), return 0; doit
\* goes on to the origin (lines 264-265).
CacheFindMiss(t) ==
    /\ SemAt(t, "find_loop")
    /\ sdoit[t].p = NULL
    /\ cache_list' = [cache_list EXCEPT !.mutex = NULL]
    /\ SemSet(t, [sdoit[t] EXCEPT !.pc = "connect"])
    /\ UNCHANGED <<heap, accepted>>

\* Lines 267-268: Open_clientfd fails, doit returns.
SemConnectFail(t) ==
    /\ SemAt(t, "connect")
    /\ SemSet(t, [sdoit[t] EXCEPT !.pc = "returned"])
    /\ UNCHANGED <<cache_list, heap, accepted>>

\* Lines 267-273: the origin is reached and sent the request; resp is what it
\* will answer.
SemConnect(t, resp) ==
    /\ SemAt(t, "connect")
    /\ SemSet(t, [sdoit[t] EXCEPT !.pc = "relay_read", !.origin = resp])
    /\ UNCHANGED <<cache_list, heap, accepted>>

\* Line 274: Rio_readnb returns the next n > 0 bytes.
SemRelayRead(t) ==
    /\ SemAt(t, "relay_read")
    /\ Len(sdoit[t].origin) > 0
    /\ LET n == Min({MAXLINE, Len(sdoit[t].origin)})
       IN  SemSet(t, [sdoit[t] EXCEPT !.pc = "relay_write",
                                    !.buf = SubSeq(sdoit[t].origin, 1, n),
                                    !.origin = SubSeq(sdoit[t].origin, n + 1,
                                                      Len(sdoit[t].origin))])
    /\ UNCHANGED <<cache_list, heap, accepted>>

\* Lines 275-279: the chunk goes to the client, is copied when
\* total_size + n < MAX_OBJECT_SIZE, and is counted in any case.
SemRelayWrite(t) ==
    /\ SemAt(t, "relay_write")
    /\ LET f == sdoit[t]
           n == Len(f.buf)
       IN  SemSet(t, [f EXCEPT !.pc = "relay_read",
                              !.sent = @ \o f.buf,
                              !.response_buf = IF f.total_size + n < MAX_OBJECT_SIZE
                                               THEN @ \o f.buf ELSE @,
                              !.total_size = @ + n])
    /\ UNCHANGED <<cache_list, heap, accepted>>

\* Line 274: Rio_readnb returns 0.
SemRelayEof(t) ==
    /\ SemAt(t, "relay_read")
    /\ Len(sdoit[t].origin) = 0
    /\ SemSet(t, [sdoit[t] EXCEPT !.pc = "relay_end"])
    /\ UNCHANGED <<cache_list, heap, accepted>>

\* Lines 282-283: total_size < MAX_OBJECT_SIZE, cache_insert is called.
SemInsert(t) ==
    /\ SemAt(t, "relay_end")
    /\ sdoit[t].total_size < MAX_OBJECT_SIZE
    /\ SemSet(t, [sdoit[t] EXCEPT !.pc = "cache_insert"])
    /\ UNCHANGED <<cache_list, heap, accepted>>

\* Lines 282-285: the response was too long, Close(clientfd).
SemNoInsert(t) ==
    /\ SemAt(t, "relay_end")
    /\ sdoit[t].total_size >= MAX_OBJECT_SIZE
    /\ SemSet(t, [sdoit[t] EXCEPT !.pc = "returned"])
    /\ UNCHANGED <<cache_list, heap, accepted>>

\* cache_insert, lines 368-370: P(&cache.mutex). The size passed is below
\* MAX_OBJECT_SIZE, so line 368 never returns.
CacheInsertP(t) ==
    /\ SemAt(t, "cache_insert")
    /\ cache_list.mutex = NULL
    /\ cache_list' = [cache_list EXCEPT !.mutex = t]
    /\ SemSet(t, [sdoit[t] EXCEPT !.pc = "insert_evict"])
    /\ UNCHANGED <<heap, accepted>>

\* Lines 371-379: one victim is taken from the tail and freed. cache.head is
\* not touched, also when the victim was the only block.
CacheInsertEvict(t) ==
    /\ SemAt(t, "insert_evict")
    /\ cache_list.total_size + sdoit[t].total_size > MAX_CACHE_SIZE
    /\ cache_list.tail # NULL
    /\ LET victim == cache_list.tail
           h1 == IF heap[victim].prev # NULL
                 THEN [heap EXCEPT ![heap[victim].prev].next = NULL]
                 ELSE heap
       IN  /\ cache_list' = [cache_list EXCEPT
                                !.tail = heap[victim].prev,
                                !.total_size = @ - heap[victim].size]
           /\ heap' = [h1 EXCEPT ![victim] = FreeNode]
    /\ UNCHANGED <<sdoit, accepted>>

\* Lines 371-373, 381-395 and 285: room enough or no tail; the new block is
\* linked at the head, V(&cache.mutex), Close(clientfd).
CacheInsertLink(t) ==
    /\ SemAt(t, "insert_evict")
    /\ \/ cache_list.total_size + sdoit[t].total_size <= MAX_CACHE_SIZE
       \/ cache_list.tail = NULL
    /\ LET new_block == Min({x \in SemBlocks : heap[x] = FreeNode})
           h1 == [heap EXCEPT ![new_block] =
                     [url |-> sdoit[t].uri,
                      data |-> SubSeq(sdoit[t].response_buf, 1, sdoit[t].total_size),
                      size |-> sdoit[t].total_size,
                      prev |-> NULL, next |-> cache_list.head]]
       IN  /\ heap' = IF cache_list.head # NULL
                      THEN [h1 EXCEPT ![cache_list.head].prev = new_block]
                      ELSE h1
           /\ cache_list' = [cache_list EXCEPT
                                !.head = new_block,
                                !.tail = IF @ = NULL THEN new_block ELSE @,
                                !.total_size = @ + sdoit[t].total_size,
                                !.mutex = NULL]
    /\ SemSet(t, [sdoit[t] EXCEPT !.pc = "returned"])
    /\ UNCHANGED accepted

\* thread (lines 235-237): doit has returned, the connection is closed.
SemClose(t) ==
    /\ SemAt(t, "returned")
    /\ SemSet(t, NoSemFrame)
    /\ UNCHANGED <<cache_list, heap, accepted>>

\* History: the urls by their most recent hit or insertion, newest first.
SemTouch(t) ==
    recency' =
        IF sdoit'[t].pc = "returned"
           /\ \/ sdoit[t].pc = "find_loop" /\ sdoit'[t].hit = 1
              \/ sdoit[t].pc = "insert_evict"
        THEN <<sdoit[t].uri>> \o SelectSeq(recency, LAMBDA u : u # sdoit[t].uri)
        ELSE recency

\* Only a handler of part_001 runs.
Sem(A, t) ==
    /\ A
    /\ SemTouch(t)
    /\ UNCHANGED <<cachevars, lockvars, threadvars, pre, racing, before, last, doit, note>>
    /\ UNCHANGED <<hdr, pu, tsvars, rq>>

\* Requests arrive one after the other, as in the scenario of lookups and a
\* following insertion.
SemNext ==
    \E t \in SeqThreads :
        \/ \E r \in SemRequests : Sem(SemAccept(t, r), t)
        \/ Sem(SemNoRequest(t), t)
        \/ Sem(SemNotGet(t), t)
        \/ Sem(SemRequest(t), t)
        \/ Sem(CacheFindP(t), t)
        \/ Sem(CacheFindNext(t), t)
        \/ Sem(CacheFindHit(t), t)
        \/ Sem(CacheFindMiss(t), t)
        \/ Sem(SemConnectFail(t), t)
        \/ \E resp \in FairResponses : Sem(SemConnect(t, resp), t)
        \/ Sem(SemRelayRead(t), t)
        \/ Sem(SemRelayWrite(t), t)
        \/ Sem(SemRelayEof(t), t)
        \/ Sem(SemInsert(t), t)
        \/ Sem(SemNoInsert(t), t)
        \/ Sem(CacheInsertP(t), t)
        \/ Sem(CacheInsertEvict(t), t)
        \/ Sem(CacheInsertLink(t), t)
        \/ Sem(SemClose(t), t)

SemSpec == Init /\ [][SemNext]_vars

\* ------------------------------------ claims about the semaphore list cache
\* The urls in the cache by their most recent hit or insertion, newest first.
SemByRecency == SelectSeq(recency, LAMBDA u : \E i \in 1..Len(SemUrls) : SemUrls[i] = u)

\* C22: a cache hit promotes the entry to the head, so the list is ordered by
\* the most recent hit or insertion and the entry cache_insert evicts (the
\* tail) is the least recently used one.
C22_HitPromotes ==
    cache_list.mutex = NULL => SemUrls = SemByRecency

\* ------------------------ part_001: parse_uri and build_requesthdrs (cache variant)
\* The literals of build_requesthdrs, lines 334-338.
SemUserAgent ==
    <<"U", "s", "e", "r", "-", "A", "g", "e", "n", "t", ":", " ", "M",
     "o", "z", "i", "l", "l", "a", "/", "5", ".", "0", "\r", "\n", "\r", "\n">>

\* strstr(s, "//"): the position of the first "//" in s, 0 for a null pointer.
strstr2(s) ==
    IF \E i \in 1..(Len(s) - 1) : s[i] = "/" /\ s[i + 1] = "/"
    THEN Min({i \in 1..(Len(s) - 1) : s[i] = "/" /\ s[i + 1] = "/"})
    ELSE 0

\* The requests that are rewritten: a request URI and the header lines the
\* client sends after the request line.
RqCalls ==
    {[NoRq EXCEPT !.pc = "start", !.uri = u,
                  !.stream = Flatten(ls) \o (IF b THEN CRLF ELSE <<>>)] :
        u \in UriInputs,
        ls \in {<<>>} \cup {<<l>> : l \in ClientLines},
        b \in BOOLEAN}

RqInit ==
    /\ ProxyInit
    /\ hdr = NoHdr
    /\ pu = NoParse
    /\ TsInit
    /\ SemInit
    /\ rq \in RqCalls

\* parse_uri, lines 294-299: the default port, and hostbegin past the first
\* "//" of the uri.
RqHostBegin ==
    /\ rq.pc = "start"
    /\ LET hostbegin == IF strstr2(rq.uri) # 0 THEN strstr2(rq.uri) + 2 ELSE 1
       IN  rq' = [rq EXCEPT !.pc = "port", !.port = 80,
                           !.rest = SubSeq(rq.uri, hostbegin, Len(rq.uri))]

\* Lines 301-305: the first ':' from hostbegin on; atoi reads what follows
\* it and the string is cut at the ':'.
RqPort ==
    /\ rq.pc = "port"
    /\ LET portpos == strchr(rq.rest, ":")
       IN  /\ portpos # 0
           /\ rq' = [rq EXCEPT !.pc = "path",
                               !.port = atoi(SubSeq(rq.rest, portpos + 1, Len(rq.rest))),
                               !.rest = SubSeq(rq.rest, 1, portpos - 1)]

\* Line 302: no ':'.
RqNoPort ==
    /\ rq.pc = "port"
    /\ strchr(rq.rest, ":") = 0
    /\ rq' = [rq EXCEPT !.pc = "path"]

\* Lines 307-310 and 315: the first '/' of what is left starts the path; the
\* string is cut there and is the host name.
RqPath ==
    /\ rq.pc = "path"
    /\ LET pathpos == strchr(rq.rest, "/")
       IN  /\ pathpos # 0
           /\ rq' = [rq EXCEPT !.pc = "request_line",
                               !.path = SubSeq(rq.rest, pathpos, Len(rq.rest)),
                               !.rest = SubSeq(rq.rest, 1, pathpos - 1),
                               !.hostname = SubSeq(rq.rest, 1, pathpos - 1)]

\* Lines 311-315: no '/', the path is "/".
RqNoPath ==
    /\ rq.pc = "path"
    /\ strchr(rq.rest, "/") = 0
    /\ rq' = [rq EXCEPT !.pc = "request_line", !.path = <<"/">>,
                        !.hostname = rq.rest]

\* build_requesthdrs, line 323: the request line, printed with the
\* argument "/".
RqRequestLine ==
    /\ rq.pc = "request_line"
    /\ rq' = [rq EXCEPT !.pc = "loop", !.has_host = 0,
                        !.req_hdrs = GetSp \o <<"/">> \o SpHttp10]

\* Lines 324-332: one header line of the client; Host is noted, and the line
\* is copied unless it is Connection, Proxy-Connection or User-Agent.
RqHeaderLine ==
    /\ rq.pc = "loop"
    /\ Len(rq.stream) > 0
    /\ LET n == ReadLineLen(rq.stream)
           buf == SubSeq(rq.stream, 1, n)
       IN  /\ buf # CRLF
           /\ rq' = [rq EXCEPT
                        !.stream = SubSeq(rq.stream, n + 1, Len(rq.stream)),
                        !.has_host = IF strncasecmp0(buf, HostPrefix, 5) THEN 1 ELSE @,
                        !.req_hdrs = IF /\ ~strncasecmp0(buf, ConnectionPrefix, 11)
                                        /\ ~strncasecmp0(buf, ProxyConnectionPrefix, 17)
                                        /\ ~strncasecmp0(buf, UserAgentPrefix, 11)
                                     THEN @ \o buf ELSE @]

\* Lines 324-325 and 333-338: the empty line or the end of the stream; Host
\* is added when the client sent none, then the three fixed headers.
RqHeadersEnd ==
    /\ rq.pc = "loop"
    /\ \/ Len(rq.stream) = 0
       \/ SubSeq(rq.stream, 1, ReadLineLen(rq.stream)) = CRLF
    /\ rq' = [rq EXCEPT !.pc = "done",
                        !.req_hdrs = @ \o (IF rq.has_host = 0
                                           THEN HostSp \o rq.hostname \o CRLF
                                           ELSE <<>>)
                                       \o ConnectionClose \o ProxyConnectionClose
                                       \o SemUserAgent]

\* Only the rewriting of one request runs.
Rq(A) == A /\ UNCHANGED <<proxyvars, hdr, pu, tsvars, semvars>>

RqNext ==
    \/ Rq(RqHostBegin)
    \/ Rq(RqPort)
    \/ Rq(RqNoPort)
    \/ Rq(RqPath)
    \/ Rq(RqNoPath)
    \/ Rq(RqRequestLine)
    \/ Rq(RqHeaderLine)
    \/ Rq(RqHeadersEnd)

RqSpec == RqInit /\ [][RqNext]_vars

\* ----------------------------- claims about the request sent to the origin
\* The first line of a request, with its line end.
FirstLine(s) == SubSeq(s, 1, strchr(s, "\n"))

\* C23: the request line sent to the origin is GET <path> HTTP/1.0, where
\* <path> is the path parse_uri resolved from the request URI.
C23_RequestLineHasPath ==
    rq.pc = "done" => FirstLine(rq.req_hdrs) = GetSp \o rq.path \o SpHttp10

\* ------------------------------------- claims about the lock discipline
\* Where a thread walks the list or copies from an entry.
TraversePcs == {"lookup_scan", "store_search", "lookup_promote"}
\* Where a thread is between the steps of a change of the list.
MutatePcs == {"store_search", "store_evict", "store_account", "lookup_promote"}

\* A step changes the list: its links, cache_head, cache_tail or cache_used.
ListChanges ==
    \/ cache_head' # cache_head
    \/ cache_tail' # cache_tail
    \/ cache_used' # cache_used
    \/ Chain' # Chain
    \/ \E b \in Blocks :
          /\ \E i \in 1..Len(Chain) : Chain[i] = b
          /\ blk'[b] # blk[b]

\* C24: the list links, cache_head, cache_tail and cache_used change only in
\* steps of the thread that holds cache_rwlock in write mode; a thread that
\* walks the list or copies a payload holds the lock in read or write mode;
\* so no thread changes the list while another walks it or copies from it.
C24_LockDiscipline ==
    /\ [](\A t \in Threads :
            /\ pc[t] \in MutatePcs => writer = t
            /\ pc[t] = "lookup_scan" => (t \in readers \/ writer = t)
            /\ pc[t] \in MutatePcs =>
                   \A o \in Threads \ {t} : pc[o] \notin TraversePcs \cup MutatePcs)
    /\ [][ListChanges =>
            /\ writer # NULL
            /\ readers = {}
            /\ pc[writer] \in MutatePcs
            /\ \A o \in Threads \ {writer} : pc'[o] = pc[o] /\ ptr'[o] = ptr[o]]_vars

\* One thread promotes under the write lock in a list of two entries while
\* another waits for the lock.
C24_Witness ==
    \E t, o \in Threads :
        /\ pc[t] = "lookup_promote"
        /\ writer = t
        /\ Len(Entries) >= 2
        /\ pc[o] \in {"lookup_rdlock", "lookup_wrlock", "store_wrlock"}

\* The thread holds cache_rwlock in some mode.
Holds(t) == writer = t \/ t \in readers
\* Where a thread asks for the lock.
LockRequestPcs == {"lookup_rdlock", "lookup_wrlock", "store_wrlock"}

\* C25: no exit path leaves the lock held: a thread that is not inside a cache
\* operation, or whose cache operation has returned, holds the lock in no
\* mode; a thread that asks for the lock does not hold it; a handler blocked
\* in a socket call does not hold it; and whenever a thread waits for the
\* lock, either the lock can be granted to it or a holder can take a step.
C25_NoLockLeftHeld ==
    \A t \in Threads :
        /\ pc[t] \in {"idle", "ret"} => ~Holds(t)
        /\ doit[t].pc \notin {"in_lookup", "in_store"} => ~Holds(t)
        /\ pc[t] \in LockRequestPcs => ~Holds(t)
        /\ doit[t].stalled => ~Holds(t)
        /\ (pc[t] \in LockRequestPcs /\ Running(t)) =>
               \/ ENABLED Progress(t)
               \/ \E o \in Threads \ {t} : Holds(o) /\ ENABLED Progress(o)

\* A hit whose client write failed has returned -1 from its promotion while
\* another handler asks for the write lock, which is free.
C25_Witness ==
    \E t, o \in Threads :
        /\ pc[t] = "ret" /\ ret[t] = -1
        /\ how[t] \in {"promoted", "gone"}
        /\ doit[t].pc = "in_lookup"
        /\ pc[o] = "store_wrlock"
        /\ CanWrlock

\* ------------------------------------------- claims about the two sockets
\* Where doit is before Open_clientfd, and where it is with clientfd open.
BeforeConnectPcs == {"idle", "readline", "lookup", "in_lookup", "connect"}
ConnectedPcs == {"send", "relay_read", "relay_write", "relay_end", "in_store"}

\* C26: on every exit path the client socket is closed once, by thread()
\* after doit has returned, and the origin socket, if it was opened, is
\* closed once, in the step in which doit returns: it is open exactly from
\* Open_clientfd to that step, and a handler leaves "returned" only by
\* thread()'s Close(connfd), which ends the connection.
C26_SocketsClosedOnce ==
    /\ [](\A t \in Threads :
            /\ doit[t].pc \in BeforeConnectPcs \cup ConnectedPcs \cup {"returned"}
            /\ doit[t].pc \in BeforeConnectPcs => doit[t].server = "none"
            /\ doit[t].pc \in ConnectedPcs => doit[t].server = "open"
            /\ doit[t].pc = "returned" => doit[t].server \in {"none", "closed"})
    /\ [][\A t \in Threads :
            /\ (doit'[t].pc = "returned" /\ doit[t].pc # "returned") =>
                   doit'[t].server = IF doit[t].server = "open" THEN "closed" ELSE "none"
            /\ doit'[t].server # doit[t].server =>
                   \/ doit[t].pc = "connect" /\ doit'[t].server = "open"
                   \/ doit[t].server = "open" /\ doit'[t].server = "closed"
                   \/ doit[t].pc = "returned" /\ doit'[t] = NoFrame
            /\ (doit[t].pc = "returned" /\ doit'[t].pc # "returned") => doit'[t] = NoFrame
            /\ (doit'[t].pc = "idle" /\ doit[t].pc # "idle") => doit[t].pc = "returned"]_vars

\* One handler has returned after its first write to the client failed in
\* the relay, its origin socket closed; the other has returned with an error
\* response, having opened none.
C26_Witness ==
    \E t, o \in Threads :
        /\ doit[t].pc = "returned" /\ doit[t].server = "closed"
        /\ doit[t].buf2 # <<>> /\ doit[t].total_size = 0 /\ doit[t].can_cache = 1
        /\ doit[o].pc = "returned" /\ doit[o].server = "none"
        /\ doit[o].errors # <<>>

\* ------------------------------------------------ claims about termination
\* C27: under fair scheduling, with every socket call returning and a finite
\* client header stream, the handler gets through build_requesthdrs: the
\* header-reading loop ends and the function returns the request to doit.
C27_HeaderLoopReturns == <>(hdr.pc = "done")

\* The header-reading loop itself ends for every finite stream, with or
\* without the empty line: the function returns or the process is ended.
HeaderLoopEnds == <>(hdr.pc \in {"done", "aborted"})

\* A handler whose socket calls all return does return from doit.
HandlersReturn ==
    \A t \in Threads :
        ([]Running(t)) => ((doit[t].pc = "readline") ~> (doit[t].pc = "returned"))

\* A handler that waits for the write lock is granted it.
WriteLockGranted ==
    \A t \in Threads : (pc[t] \in {"lookup_wrlock", "store_wrlock"}) ~> (writer = t)

\* ------------------------------------- claims about the timestamp-slot cache
Occupied == {i \in Slots : cache[i].size > 0}
\* Where a slot stands in the order of the latest hits and writes.
TouchedAt(i) == CHOOSE k \in 1..Len(touched) : touched[k] = i

\* C28: cache_write fills an empty slot when there is one and changes no
\* other slot; with every slot occupied it replaces the one slot whose latest
\* hit or write is the oldest and no other; occupied slots carry pairwise
\* distinct timestamps, ordered as their latest hits and writes.
C28_StrictLru ==
    /\ [](\A i, j \in Occupied :
            /\ \E k \in 1..Len(touched) : touched[k] = i
            /\ i # j => cache[i].timestamp # cache[j].timestamp
            /\ TouchedAt(i) < TouchedAt(j) => cache[i].timestamp > cache[j].timestamp)
    /\ [][\A t \in Threads :
            (ts[t].pc = "write_fill" /\ ts'[t].pc = "returned") =>
                LET v == ts[t].victim IN
                /\ \A j \in Slots \ {v} : cache'[j] = cache[j]
                /\ cache'[v].uri = ts[t].uri
                /\ IF Occupied # Slots
                   THEN v \notin Occupied
                   ELSE /\ Len(touched) = CACHE_CNT
                        /\ v = touched[Len(touched)]]_vars

\* Every slot is occupied, the first one was hit after the second one was
\* written, and a cache_write is about to replace the second.
C28_Witness ==
    \E t \in Threads :
        /\ ts[t].pc = "write_fill"
        /\ Occupied = Slots
        /\ touched = <<1, 2>>
        /\ ts[t].victim = 2

\* ------------------------------------------- claims about the list's shape
\* C29: whenever no thread holds the write lock, cache_head and cache_tail
\* are both NULL or both not, head.prev and tail.next are NULL, following
\* next from cache_head visits each entry once and ends at cache_tail,
\* x.next.prev = x for every entry but the tail, and cache_used is the sum of
\* the sizes of the entries in the list.
C29_ListWellFormed ==
    writer = NULL =>
        /\ (cache_head = NULL) <=> (cache_tail = NULL)
        /\ cache_head # NULL =>
               /\ blk[cache_head].prev = NULL
               /\ blk[cache_tail].next = NULL
               /\ Chain[Len(Chain)] = cache_tail
        /\ Len(Chain) <= Cardinality(Blocks)
        /\ \A i, j \in 1..Len(Chain) : i # j => Chain[i] # Chain[j]
        /\ \A i \in 1..Len(Chain) :
               /\ i < Len(Chain) => blk[Chain[i]].next = Chain[i + 1]
               /\ i < Len(Chain) => blk[blk[Chain[i]].next].prev = Chain[i]
               /\ i > 1 => blk[Chain[i]].prev = Chain[i - 1]
        /\ cache_used = SumSizes(Entries)

\* The lock is free, the list is full with two entries: one thread's
\* promotion has put its entry at the head, in front of the entry another
\* thread's store has inserted.
C29_Witness ==
    /\ writer = NULL
    /\ Len(Entries) = 2
    /\ cache_used = MAX_CACHE_SIZE
    /\ \E t, o \in Threads :
          /\ pc[t] = "ret" /\ how[t] = "promoted"
          /\ Entries[1].uri = call[t].uri
          /\ pc[o] = "ret" /\ how[o] = "inserted"
          /\ Entries[2].uri = call[o].uri

\* --------------------------------------- claims about what a hit writes
\* C30: a lookup that finds its entry copies, with the read lock held, the
\* whole payload of the one entry the list has for the URI; no step of any
\* thread changes that copy while the write to the client is pending, not
\* even the eviction of the entry; and a hit writes exactly the copy, with
\* the lock released.
C30_HitWritesPrivateCopy ==
    [][\A t \in Threads :
        /\ (pc[t] = "lookup_scan" /\ pc'[t] = "lookup_write") =>
               /\ t \in readers
               /\ Cardinality(EntriesFor(call[t].uri)) = 1
               /\ \A i \in EntriesFor(call[t].uri) :
                      /\ localbuf'[t] = Entries[i].buf
                      /\ Len(localbuf'[t]) = Entries[i].size
        /\ (pc[t] = "lookup_write" /\ pc'[t] = "lookup_write") =>
               /\ localbuf'[t] = localbuf[t]
               /\ sink'[t] = sink[t]
        /\ (pc[t] = "lookup_write" /\ pc'[t] # "lookup_write" /\ served'[t] = 0) =>
               /\ ~Holds(t)
               /\ sink'[t] = sink[t] \o localbuf[t]
        /\ (pc[t] # "ret" /\ pc'[t] = "ret" /\ call[t].op = "lookup" /\ ret'[t] = 0) =>
               /\ sink'[t] = sink[t]
               /\ sink[t] # <<>>]_vars

\* A hit has been served in full and has returned 0 although the entry it
\* found was evicted meanwhile: the list no longer has the URI.
C30_Witness ==
    \E t \in Threads :
        /\ pc[t] = "ret" /\ call[t].op = "lookup" /\ ret[t] = 0
        /\ how[t] = "gone"
        /\ Len(sink[t]) = MAX_OBJECT_SIZE
        /\ ~InCache(call[t].uri)
        /\ Len(Entries) > 0

\* ------------------------------------------- claims about the relay loop
\* Where doit is inside the loop of lines 279-294.
RelayLoopPcs == {"relay_read", "relay_write"}

\* C31: in the relay loop 0 <= total_size <= MAX_OBJECT_SIZE and nothing is
\* held past the end of object_buf; can_cache, once cleared, stays cleared
\* for the rest of the request; and while can_cache is set the first
\* total_size bytes of object_buf are the chunks written to the client so
\* far, all of them and in order.
C31_RelayAccumulation ==
    /\ [](\A t \in Threads :
            doit[t].pc \in RelayLoopPcs =>
                /\ 0 <= doit[t].total_size
                /\ doit[t].total_size <= MAX_OBJECT_SIZE
                /\ Len(doit[t].object_buf) <= MAX_OBJECT_SIZE
                /\ doit[t].can_cache \in {0, 1}
                /\ doit[t].can_cache = 1 =>
                       /\ doit[t].total_size = Len(Relayed(t))
                       /\ SubSeq(doit[t].object_buf, 1, doit[t].total_size) = Relayed(t))
    /\ [][\A t \in Threads :
            (doit[t].can_cache = 0 /\ doit'[t].can_cache # 0) => doit'[t] = NoFrame]_vars

\* Two chunks have been written to the client and accumulated, the object
\* has reached the cap and the origin has more to send.
C31_Witness ==
    \E t \in Threads :
        /\ doit[t].pc = "relay_read"
        /\ doit[t].can_cache = 1
        /\ doit[t].total_size = MAX_OBJECT_SIZE
        /\ Len(doit[t].buf2) < doit[t].total_size
        /\ doit[t].origin # <<>>

\* ------------------------------------------- claims about stored entries
\* The block is linked into the list.
Linked(h, hd, b) == b \in Seq2Set(WalkFrom(h, hd, Cardinality(Blocks) + 1))

\* C32: a stored entry is immutable: a block that is in the list before and
\* after a step keeps its URI, payload and size, whatever lookup, promotion
\* or store the step belongs to; a block leaves the list only as the tail
\* evicted by a store under the write lock, and enters it only as the new
\* block of a store, with that store's URI and payload.
C32_EntriesImmutable ==
    [][\A b \in Blocks :
        /\ (Linked(blk, cache_head, b) /\ Linked(blk', cache_head', b)) =>
               EntryOf(blk', b) = EntryOf(blk, b)
        /\ (Linked(blk, cache_head, b) /\ ~Linked(blk', cache_head', b)) =>
               /\ b = cache_tail
               /\ writer # NULL /\ pc[writer] = "store_evict"
        /\ (~Linked(blk, cache_head, b) /\ Linked(blk', cache_head', b)) =>
               /\ writer # NULL /\ pc[writer] = "store_evict" /\ nb[writer] = b
               /\ EntryOf(blk', b) = [uri |-> call[writer].uri, buf |-> call[writer].buf,
                                       size |-> Len(call[writer].buf)]]_vars

\* An entry has been served by one thread's lookup and promoted, and has been
\* found by another thread's store of the same URI with another payload: it
\* is at the head of a list of two and still holds the payload served.
C32_Witness ==
    \E t, o \in Threads :
        /\ Returned(t, "store") /\ how[t] = "dup"
        /\ Returned(o, "lookup") /\ how[o] = "promoted" /\ ret[o] = 0
        /\ call[o].uri = call[t].uri
        /\ Len(Entries) = 2
        /\ Entries[1].uri = call[t].uri
        /\ Entries[1].buf = sink[o]
        /\ Entries[1].buf # call[t].buf

====
